---- MODULE Spec2Model ----
(***************************************************************************)
(* A model of the arbitrage engine's dual-order executor, its recovery     *)
(* manager and its lock-free ring queues.                                  *)
(*                                                                         *)
(* The module holds several state machines over disjoint groups of         *)
(* variables.  Each specification runs one of them and leaves the          *)
(* variables of the others at their initial values:                        *)
(*   SpecPlan  RecoveryManager::create_plan applied to any request/result  *)
(*   SpecExec  DualOrderExecutor::execute_sync with its two leg tasks, and *)
(*             RecoveryManager::execute_recovery with its retry loop       *)
(*   SpecSPSC  SPSCQueue with one producer and one consumer thread         *)
(*   SpecMPSC  MPSCQueue with several producers and one consumer thread    *)
(*   SpecPool  ObjectPool over FixedMemoryPool with several threads        *)
(*   SpecWs    WebSocketClientBase: one session and its io_context handlers *)
(*   SpecMexc  the same handlers for a MEXCWebSocket session               *)
(*   SpecPremium  PremiumCalculator under price, FX and setting updates    *)
(*   SpecMatrix   PremiumCalculator with concurrent writers and a reader   *)
(*   SpecTransfer TransferManager::initiate_sync on any request            *)
(*   SpecWait     TransferManager::wait_completion, its polling task       *)
(*   SpecLegs     execute_sync with venues whose place_order may hang      *)
(*   SpecLimiter  TokenBucketRateLimiter::try_acquire from several threads *)
(*   SpecEvents   WebSocketClientBase::emit_event and the polling thread   *)
(*   SpecDecode   a session whose venue sends frames that do not decode    *)
(*   SpecRecoveryQueue  RecoveryQueue: enqueue, start, stop, the worker    *)
(*   SpecAnalyzer OrderBookAnalyzer: one writer and concurrent readers     *)
(***************************************************************************)
EXTENDS Integers, Sequences, FiniteSets, TLC

VARIABLES
    \* ---- executor / recovery manager -----------------------------------
    entry,              \* which public method the caller invoked
    pc,                 \* position of the calling thread inside that method
    request,            \* DualOrderRequest
    order_clients_,     \* DualOrderExecutor::order_clients_ (its key set)
    recovery_,          \* DualOrderExecutor::recovery_ != nullptr
    auto_recovery_,     \* DualOrderExecutor::auto_recovery_
    rm_order_clients_,  \* RecoveryManager::order_clients_ (its key set)
    max_retries_,       \* RecoveryManager::max_retries_
    dry_run_,           \* RecoveryManager::dry_run_
    buy_future,         \* the buy leg's std::async task
    sell_future,        \* the sell leg's std::async task
    result,             \* DualOrderResult being assembled / returned
    stats_,             \* DualOrderExecutor::stats_ (ExecutorStats)
    plan,               \* RecoveryPlan (create_plan's value, execute_with_retry's plan)
    recovery_result,    \* RecoveryResult of execute_with_retry
    rm_stats_,          \* RecoveryManager::stats_
    place_calls,        \* per venue, how often place_order was called
    callbacks,          \* how often recovery_callback_ was invoked
    attempt_log,        \* execute_with_retry's history: "ok" / "fail" attempts and "sleep"
    \* ---- SPSCQueue ------------------------------------------------------
    sq,                 \* the SPSCQueue object: capacity_, mask_, buffer_, head_, tail_
    sq_producer,        \* the producer thread inside push: its position and locals
    sq_consumer,        \* the consumer thread inside pop: its position and locals
    sq_history,         \* items whose push returned true, items pop returned, calls made
    \* ---- MPSCQueue ------------------------------------------------------
    mq,                 \* the MPSCQueue object: capacity_, mask_, slots_, head_, tail_
    mq_producers,       \* each producer thread inside push: its position and locals
    mq_consumer,        \* the consumer thread inside pop: its position and locals
    mq_history,         \* per producer the items accepted, and the items pop returned
    \* ---- ObjectPool -----------------------------------------------------
    pool,               \* free_head_, each block's first word, fallback_count_, live objects
    pool_threads,       \* each thread inside create / destroy: position, locals, objects owned
    pool_active,        \* the threads that use the pool
    \* ---- WebSocketClientBase / MEXCWebSocket ----------------------------
    ws,                 \* the session object's fields, ws_.is_open() and the MEXC indices
    ws_io,              \* asynchronous operations outstanding on the io_context, and the link
    ws_obs,             \* what an observer has seen: events, delays, writes, attempts
    \* ---- PremiumCalculator ----------------------------------------------
    premium,            \* prices_, fx_rate_, matrix_, threshold_, callback_ set or not
    premium_obs,        \* the matrix before the last recalculate, and its callback calls
    premium_threads,    \* mutex_, the threads inside update_* and what get_matrix returned
    \* ---- TransferManager ---------------------------------------------------
    transfer,           \* dry_run_, order_clients_ (key set), status_callback_ set, stats_
    transfer_call,      \* the thread inside initiate_sync / wait_completion, its result
    transfer_obs,       \* venue API calls made, statuses polled and status_callback_ invocations
    \* ---- TokenBucketRateLimiter --------------------------------------------
    limiter,            \* rate_, burst_, tokens_, last_refill_
    limiter_threads,    \* each thread inside try_acquire: its position and locals
    limiter_obs,        \* the steady clock, and at which tick how many calls returned true
    \* ---- WebSocketClientBase event delivery --------------------------------
    events,             \* event_callback_ set or not, event_queue_, stats_
    events_obs,         \* events emitted, delivered to the callback, refused by the queue, polled
    \* ---- RecoveryQueue -----------------------------------------------------
    rq,                 \* queue_, running_, callback_ set or not, the worker thread and the thread in stop()
    rq_obs,             \* plans enqueued, plans executed, callbacks made, plans enqueued when stop() was called
    \* ---- OrderBookAnalyzer -------------------------------------------------
    analyzer,           \* orderbooks_, metrics_, mutex_, and the position of the writer and of each reader
    analyzer_obs        \* update calls started

exec_vars == <<entry, pc, request, order_clients_, recovery_, auto_recovery_,
               rm_order_clients_, max_retries_, dry_run_, buy_future, sell_future,
               result, stats_, plan, recovery_result, rm_stats_, place_calls,
               callbacks, attempt_log>>

spsc_vars == <<sq, sq_producer, sq_consumer, sq_history>>

mpsc_vars == <<mq, mq_producers, mq_consumer, mq_history>>

\* Everything that is not the executor's or the recovery manager's.
queue_vars == <<spsc_vars, mpsc_vars>>

pool_vars == <<pool, pool_threads, pool_active>>

ws_vars == <<ws, ws_io, ws_obs>>

premium_vars == <<premium, premium_obs, premium_threads>>

transfer_vars == <<transfer, transfer_call, transfer_obs>>

limiter_vars == <<limiter, limiter_threads, limiter_obs>>

events_vars == <<events, events_obs>>

rq_vars == <<rq, rq_obs>>

analyzer_vars == <<analyzer, analyzer_obs>>

vars == <<exec_vars, queue_vars, pool_vars, ws_vars, premium_vars, transfer_vars, limiter_vars, events_vars, rq_vars, analyzer_vars>>

\* What the actions of one state machine leave alone: the other machines.
outside_exec == <<queue_vars, pool_vars, ws_vars, premium_vars, transfer_vars, limiter_vars, events_vars, rq_vars, analyzer_vars>>

outside_spsc == <<exec_vars, mpsc_vars, pool_vars, ws_vars, premium_vars, transfer_vars, limiter_vars, events_vars, rq_vars, analyzer_vars>>

outside_mpsc == <<exec_vars, spsc_vars, pool_vars, ws_vars, premium_vars, transfer_vars, limiter_vars, events_vars, rq_vars, analyzer_vars>>

outside_pool == <<exec_vars, queue_vars, ws_vars, premium_vars, transfer_vars, limiter_vars, events_vars, rq_vars, analyzer_vars>>

outside_ws == <<exec_vars, queue_vars, pool_vars, premium_vars, transfer_vars, limiter_vars, events_vars, rq_vars, analyzer_vars>>

outside_premium == <<exec_vars, queue_vars, pool_vars, ws_vars, transfer_vars, limiter_vars, events_vars, rq_vars, analyzer_vars>>

outside_transfer == <<exec_vars, queue_vars, pool_vars, ws_vars, premium_vars, limiter_vars, events_vars, rq_vars, analyzer_vars>>

outside_limiter == <<exec_vars, queue_vars, pool_vars, ws_vars, premium_vars, transfer_vars, events_vars, rq_vars, analyzer_vars>>

outside_events == <<exec_vars, queue_vars, pool_vars, ws_vars, premium_vars, transfer_vars, limiter_vars, rq_vars, analyzer_vars>>

outside_rq == <<exec_vars, queue_vars, pool_vars, ws_vars, premium_vars, transfer_vars, limiter_vars, events_vars, analyzer_vars>>

outside_analyzer == <<exec_vars, queue_vars, pool_vars, ws_vars, premium_vars, transfer_vars, limiter_vars, events_vars, rq_vars>>

(***************************************************************************)
(* Bounds of the model.                                                    *)
(***************************************************************************)
\* largest requested / filled quantity drawn for create_plan
MaxQty == 2

\* queue capacities up to 2^MaxCapacityLog2 are tried; the constructors accept
\* the powers of two among them
MaxCapacityLog2 == 2

\* push calls the SPSC producer makes
MaxPushes == 6

\* producer threads of the MPSC queue
NumProducers == 2

\* push calls each MPSC producer makes
MaxProducerPushes == 2

\* blocks of the ObjectPool (its PoolSize template argument)
PoolSize == 2

\* threads that use the ObjectPool
PoolThreads == 2

\* create calls each pool thread makes
MaxCreates == 3

\* largest max_retries drawn for the recovery manager and for plans
MaxRetries == 2

\* Most consecutive fail() calls that schedule a reconnect (reconnect_count_ reaches it).
MaxReconnects == 32

\* Most successful handshakes of one session.
MaxConnections == 2

\* The same two limits for a MEXC session, whose pings and subscriptions
\* multiply the interleavings.
MaxMexcReconnects == 3

MaxMexcConnections == 2

\* Most PING messages a MEXC session sends on one connection.
MaxPings == 1

\* Most messages posted or queued for writing at one time.
MaxWriteQueue == 2

\* Most symbols configured per MEXC stream.
MaxSymbols == 1

\* The largest KRW price step: KRW venues quote 100, 102, ... 100 + 2 * MaxPriceSteps.
MaxPriceSteps == 2

\* Threads that update the premium calculator at the same time, one update each.
NumWriters == 2

\* Largest amount (in XRP) drawn for a TransferRequest; the smallest is -1.
MaxAmount == 26

\* initiate_sync calls made on one TransferManager.
MaxTransfers == 2

\* Largest timeout handed to wait_completion, in clock ticks.
MaxTimeout == 4

\* Largest poll_interval handed to wait_completion, in clock ticks.
MaxPollInterval == 2

\* By how many ticks sleep_for may return later than asked.
MaxOversleep == 1

\* Threads that call try_acquire on one TokenBucketRateLimiter.
LimiterThreads == 2

\* try_acquire calls each of those threads makes.
MaxAcquires == 2

\* Largest burst the limiter is built with.
MaxBurst == 2

\* Ticks (milliseconds) the steady clock runs while the limiter is used.
MaxClock == 2

\* log2 of the capacity of a session's event_queue_ (4096 in the source).
EventQueueLog2 == 1

\* emit_event calls made on one session.
MaxEvents == 4

\* Frames that cannot be decoded which a venue sends to one session.
MaxBadFrames == 1

\* Calls of RecoveryQueue::enqueue in one run.
MaxEnqueues == 3

\* Calls of RecoveryQueue::start in one run.
MaxStarts == 2

\* Reader threads of one OrderBookAnalyzer.
AnalyzerReaders == 2

\* Calls of OrderBookAnalyzer::update in one run.
MaxUpdates == 2

(***************************************************************************)
(* Enumerations (include/arbitrage/common/types.hpp).                      *)
(***************************************************************************)
Exchanges == {"Upbit", "Bithumb", "Binance", "MEXC"}

OrderSides == {"Buy", "Sell"}

OrderTypes == {"Limit", "Market"}

OrderStatuses == {"Pending", "Open", "PartiallyFilled", "Filled", "Canceled", "Failed"}

RecoveryActions == {"None", "SellBought", "BuySold", "CancelBoth", "ManualIntervention"}

\* RecoveryPlan::max_retries default member initializer
DefaultMaxRetries == 3

\* PremiumCalculator::fx_rate_ as constructed.
DefaultFxRate == 1350

\* transfer_fees: the smallest XRP withdrawal each venue accepts.
UPBIT_XRP_MIN == 21

BITHUMB_XRP_MIN == 25

BINANCE_XRP_MIN == 20

MEXC_XRP_MIN == 20

(***************************************************************************)
(* OrderRequest, OrderResult, SingleOrderResult.                           *)
(***************************************************************************)
\* A value-initialized OrderRequest ({}): every enum is its first enumerator.
DefaultOrder ==
    [exchange |-> "Upbit", side |-> "Buy", type |-> "Limit",
     symbol |-> "", quantity |-> 0, price |-> 0]

\* A default-constructed SingleOrderResult: neither result nor error.
EmptyLeg ==
    [has_result |-> FALSE, status |-> "Pending", filled_qty |-> 0, error |-> "None"]

\* SingleOrderResult holding an Error and no OrderResult.
ErrorLeg(code) == [EmptyLeg EXCEPT !.error = code]

\* SingleOrderResult holding the OrderResult a venue returned.
ResultLeg(status, qty) ==
    [has_result |-> TRUE, status |-> status, filled_qty |-> qty, error |-> "None"]

\* OrderResult::is_filled
order_is_filled(leg) == leg.status = "Filled"

\* OrderResult::is_failed
order_is_failed(leg) == leg.status = "Failed" \/ leg.status = "Canceled"

\* SingleOrderResult::is_success
is_success(leg) == leg.has_result /\ leg.error = "None"

\* SingleOrderResult::is_filled
is_filled(leg) == is_success(leg) /\ order_is_filled(leg)

\* SingleOrderResult::is_failed
is_failed(leg) == leg.error # "None" \/ (leg.has_result /\ order_is_failed(leg))

\* SingleOrderResult::filled_qty
filled_qty(leg) == IF leg.has_result THEN leg.filled_qty ELSE 0

(***************************************************************************)
(* DualOrderRequest, DualOrderResult.                                      *)
(***************************************************************************)
\* A faulty variant of is_valid: the quantity test written as < 0, so that 0 passes.
is_valid_zero_quantity(req) ==
    IF req.buy_order.exchange = req.sell_order.exchange THEN FALSE
    ELSE IF req.buy_order.side # "Buy" THEN FALSE
    ELSE IF req.sell_order.side # "Sell" THEN FALSE
    ELSE IF req.buy_order.quantity < 0 \/ req.sell_order.quantity < 0 THEN FALSE
    ELSE TRUE

\* DualOrderRequest::is_valid
is_valid(req) ==
    IF req.buy_order.exchange = req.sell_order.exchange THEN FALSE
    ELSE IF req.buy_order.side # "Buy" THEN FALSE
    ELSE IF req.sell_order.side # "Sell" THEN FALSE
    ELSE IF req.buy_order.quantity <= 0 \/ req.sell_order.quantity <= 0 THEN FALSE
    ELSE TRUE

\* DualOrderResult::both_success
both_success(res) == is_success(res.buy_result) /\ is_success(res.sell_result)

\* DualOrderResult::both_filled
both_filled(res) == is_filled(res.buy_result) /\ is_filled(res.sell_result)

\* DualOrderResult::both_failed
both_failed(res) == is_failed(res.buy_result) /\ is_failed(res.sell_result)

\* DualOrderResult::partial_fill
partial_fill(res) ==
    \/ (is_success(res.buy_result) /\ is_failed(res.sell_result))
    \/ (is_failed(res.buy_result) /\ is_success(res.sell_result))

\* A default-constructed DualOrderResult.
EmptyResult == [buy_result |-> EmptyLeg, sell_result |-> EmptyLeg]

(***************************************************************************)
(* RecoveryPlan and RecoveryManager::create_plan.                          *)
(***************************************************************************)
\* RecoveryPlan{action, {}, reason}: the other members keep their defaults.
PlainPlan(action) ==
    [action |-> action, recovery_order |-> DefaultOrder,
     retry_count |-> 0, max_retries |-> DefaultMaxRetries]

\* RecoveryPlan::needs_execution
needs_execution(p) == p.action # "None" /\ p.action # "ManualIntervention"

\* A faulty variant of can_retry: the bound taken inclusively.
can_retry_inclusive(p) == p.retry_count <= p.max_retries

\* RecoveryPlan::can_retry
can_retry(p) == p.retry_count < p.max_retries

\* RecoveryPlan::increment_retry
increment_retry(p) == [p EXCEPT !.retry_count = @ + 1]

\* A faulty variant of recovery_quantity: the requested quantity instead of the fill.
recovery_quantity_requested(req_order, leg) == req_order.quantity

\* The quantity create_sell_bought_plan / create_buy_sold_plan gives the order.
recovery_quantity(req_order, leg) == filled_qty(leg)

\* RecoveryManager::create_sell_bought_plan
create_sell_bought_plan(req, res, max_retries) ==
    [action |-> "SellBought",
     recovery_order |->
        [exchange |-> req.buy_order.exchange,
         side |-> "Sell",
         type |-> "Market",
         symbol |-> req.buy_order.symbol,
         quantity |-> recovery_quantity(req.buy_order, res.buy_result),
         price |-> 0],
     retry_count |-> 0,
     max_retries |-> max_retries]

\* RecoveryManager::create_buy_sold_plan
create_buy_sold_plan(req, res, max_retries) ==
    [action |-> "BuySold",
     recovery_order |->
        [exchange |-> req.sell_order.exchange,
         side |-> "Buy",
         type |-> "Market",
         symbol |-> req.sell_order.symbol,
         quantity |-> recovery_quantity(req.sell_order, res.sell_result),
         price |-> 0],
     retry_count |-> 0,
     max_retries |-> max_retries]

\* RecoveryManager::create_plan: the plan it returns.
create_plan(req, res, max_retries) ==
    LET buy_ok == is_success(res.buy_result)
        sell_ok == is_success(res.sell_result)
    IN  IF buy_ok /\ sell_ok THEN PlainPlan("None")
        ELSE IF ~buy_ok /\ ~sell_ok THEN PlainPlan("None")
        ELSE IF buy_ok /\ ~sell_ok THEN create_sell_bought_plan(req, res, max_retries)
        ELSE IF ~buy_ok /\ sell_ok THEN create_buy_sold_plan(req, res, max_retries)
        ELSE PlainPlan("ManualIntervention")

\* RecoveryManager::create_plan: the counters it increments.
create_plan_stats(st, res) ==
    LET buy_ok == is_success(res.buy_result)
        sell_ok == is_success(res.sell_result)
        counted == [st EXCEPT !.total_plans = @ + 1]
    IN  IF buy_ok /\ sell_ok THEN counted
        ELSE IF ~buy_ok /\ ~sell_ok THEN counted
        ELSE IF buy_ok /\ ~sell_ok THEN [counted EXCEPT !.sell_bought_plans = @ + 1]
        ELSE IF ~buy_ok /\ sell_ok THEN [counted EXCEPT !.buy_sold_plans = @ + 1]
        ELSE [counted EXCEPT !.manual_plans = @ + 1]

\* RecoveryManager::Stats after construction.
RmStatsInit ==
    [total_plans |-> 0, sell_bought_plans |-> 0, buy_sold_plans |-> 0,
     manual_plans |-> 0, executions |-> 0, successes |-> 0, failures |-> 0,
     retries |-> 0]

\* ExecutorStats after construction (the latency fields hold no decision).
StatsInit ==
    [total_requests |-> 0, successful_dual |-> 0, partial_success |-> 0,
     total_failures |-> 0, recovery_attempts |-> 0, recovery_success |-> 0]

\* RecoveryResult before execute_with_retry has set it.
EmptyRecoveryResult ==
    [plan |-> PlainPlan("None"), result |-> EmptyLeg, success |-> FALSE]

\* A std::async task and its future: the task is not started, running, or ready
\* with its value; `retrieved` is set once future::get has returned the value.
NoTask == [st |-> "none", value |-> EmptyLeg, retrieved |-> FALSE]

(***************************************************************************)
(* Input domains.                                                          *)
(***************************************************************************)
\* Every SingleOrderResult: an absent optional<OrderResult> has no content.
AllLegs ==
    {[has_result |-> hr, status |-> st, filled_qty |-> q, error |-> e] :
        hr \in BOOLEAN, st \in OrderStatuses, q \in 0..MaxQty,
        e \in {"None", "ExchangeError"}}

Legs == {l \in AllLegs : ~l.has_result => (l.status = "Pending" /\ l.filled_qty = 0)}

\* An order of a dual request, as the tests build it.
LegOrder(ex, side, sym, qty) ==
    [exchange |-> ex, side |-> side, type |-> "Market",
     symbol |-> sym, quantity |-> qty, price |-> 0]

\* The requests handed to create_plan: well-sided, any two venues.
PlanRequests ==
    {[buy_order |-> LegOrder(b, "Buy", "XRPUSDT", q),
      sell_order |-> LegOrder(s, "Sell", "KRW-XRP", q)] :
        b \in Exchanges, s \in Exchanges, q \in 1..MaxQty}

(***************************************************************************)
(* The lock-free queues' data (lockfree_queue.hpp).                        *)
(***************************************************************************)
\* size_t's bitwise and, on naturals.
RECURSIVE BitAnd(_, _)
BitAnd(a, b) ==
    IF a = 0 \/ b = 0
    THEN 0
    ELSE (a % 2) * (b % 2) + 2 * BitAnd(a \div 2, b \div 2)

\* The constructors' test "(capacity & (capacity - 1)) != 0 -> throw".
is_power_of_two(capacity) == BitAnd(capacity, capacity - 1) = 0

\* The capacities a queue can be constructed with, up to 2^MaxCapacityLog2.
Capacities == {c \in 1..(2 ^ MaxCapacityLog2) : is_power_of_two(c)}

\* SPSCQueue::SPSCQueue(capacity): default-constructed slots, both indices 0.
SPSCQueue(capacity) ==
    [capacity_ |-> capacity,
     mask_     |-> capacity - 1,
     buffer_   |-> [i \in 0..(capacity - 1) |-> 0],
     head_     |-> 0,
     tail_     |-> 0]

\* MPSCQueue::MPSCQueue(capacity): slot i starts with turn i and no data.
MPSCQueue(capacity) ==
    [capacity_ |-> capacity,
     mask_     |-> capacity - 1,
     slots_    |-> [i \in 0..(capacity - 1) |-> [turn |-> i, data |-> <<0, 0>>]],
     head_     |-> 0,
     tail_     |-> 0]

\* The producer threads of the MPSC queue.
Producers == 1..NumProducers

\* A thread that is not inside push.
IdleProducer == [pc |-> "idle", head |-> 0, next |-> 0, item |-> 0, ret |-> "none", seen |-> 0]

\* A thread that is not inside pop.
IdleConsumer == [pc |-> "idle", tail |-> 0, item |-> 0, ret |-> "none", seen |-> 0]

\* An MPSC producer that is not inside push and has pushed nothing.
IdleMProducer ==
    [pc |-> "idle", head |-> 0, item |-> <<0, 0>>, ret |-> "none", calls |-> 0,
     seen |-> 0, claimed |-> 0, alone |-> FALSE]

\* The MPSC consumer outside pop.
IdleMConsumer ==
    [pc |-> "idle", item |-> <<0, 0>>, ret |-> "none", seen |-> 0, pending |-> FALSE]

\* Threads at rest and empty histories, around an SPSC queue.
SPSCFresh ==
    /\ sq_producer = IdleProducer
    /\ sq_consumer = IdleConsumer
    /\ sq_history = [pushed |-> <<>>, popped |-> <<>>, calls |-> 0]

\* Threads at rest and empty histories, around an MPSC queue.
MPSCFresh ==
    /\ mq_producers = [p \in Producers |-> IdleMProducer]
    /\ mq_consumer = IdleMConsumer
    /\ mq_history = [pushed |-> [p \in Producers |-> <<>>], popped |-> <<>>]

\* The queues of a specification that runs no queue.
SPSCUnused == sq = SPSCQueue(1) /\ SPSCFresh

MPSCUnused == mq = MPSCQueue(1) /\ MPSCFresh

QueuesUnused == SPSCUnused /\ MPSCUnused

\* The state shared by every specification before a call is made.
ExecIdle ==
    /\ order_clients_ = {}
    /\ recovery_ = FALSE
    /\ auto_recovery_ = TRUE
    /\ rm_order_clients_ = {}
    /\ max_retries_ = DefaultMaxRetries
    /\ dry_run_ = FALSE

\* What no call has touched yet.
CallFresh ==
    /\ buy_future = NoTask
    /\ sell_future = NoTask
    /\ stats_ = StatsInit
    /\ recovery_result = EmptyRecoveryResult
    /\ rm_stats_ = RmStatsInit
    /\ place_calls = [e \in Exchanges |-> 0]
    /\ callbacks = 0
    /\ attempt_log = <<>>

(***************************************************************************)
(* ObjectPool / FixedMemoryPool data (memory_pool.hpp).                    *)
(***************************************************************************)
\* nullptr, and the content of a block's first word while an object lives in it.
Null == 0

Garbage == -1

\* The blocks of FixedMemoryPool::memory_.
PoolBlocks == 1..PoolSize

\* The blocks ::operator new can hand to create when the pool is exhausted.
HeapBlocks == (PoolSize + 1)..(PoolSize + PoolThreads * MaxCreates)

\* The threads that call create and destroy.
PoolThreadIds == 1..PoolThreads

\* FixedMemoryPool::FixedMemoryPool: the free list 1 -> 2 -> ... -> PoolSize.
NewPool ==
    [free_head_      |-> 1,
     next            |-> [b \in PoolBlocks \cup HeapBlocks |->
                             IF b < PoolSize THEN b + 1
                             ELSE IF b = PoolSize THEN Null ELSE Garbage],
     fallback_count_ |-> 0,
     live            |-> [b \in PoolBlocks \cup HeapBlocks |-> 0],
     heap            |-> 0]

\* A thread outside create and destroy that owns no object.
IdlePoolThread == [pc |-> "idle", node |-> Null, link |-> Null, held |-> {}, creates |-> 0]

\* The pool of a specification that runs none.
PoolUnused ==
    /\ pool = NewPool
    /\ pool_threads = [t \in PoolThreadIds |-> IdlePoolThread]
    /\ pool_active = {}

(***************************************************************************)
(* WebSocketClientBase data.                                               *)
(***************************************************************************)
\* Venues: Upbit stands for the venues with a subscribe payload and a
\* protocol-level ping; MEXC subscribes in on_connected and pings in JSON.
\* The stages of one connection attempt, each an asynchronous operation.
WsStages == <<"resolve", "connect", "ssl_handshake", "handshake">>

\* WebSocketClientBase as constructed, with the MEXC subscription lists given.
NewSession(exchange, orderbook, ticker, trade) ==
    [exchange_          |-> exchange,
     connected_         |-> FALSE,
     should_reconnect_  |-> TRUE,
     reconnect_count_   |-> 0,
     writing_           |-> FALSE,
     write_queue_       |-> <<>>,
     is_open            |-> FALSE,
     orderbook_symbols_ |-> orderbook,
     ticker_symbols_    |-> ticker,
     trade_symbols_     |-> trade,
     orderbook_idx_     |-> 0,
     ticker_idx_        |-> 0,
     trade_idx_         |-> 0,
     orderbook_done_    |-> FALSE,
     ticker_done_       |-> FALSE,
     trade_done_        |-> FALSE,
     subscribe_id_      |-> 1]

\* No asynchronous operation outstanding, no transport.
NoIo ==
    [attempt         |-> "none",   \* the pending stage of the connection attempt
     read            |-> FALSE,    \* ws_.async_read outstanding
     write           |-> FALSE,    \* ws_.async_write of write_queue_.front() outstanding
     close           |-> FALSE,    \* ws_.async_close outstanding
     ping_timer      |-> FALSE,    \* ping_timer_.async_wait outstanding
     reconnect_timer |-> FALSE,    \* reconnect_timer_.async_wait outstanding
     posted          |-> <<>>,     \* send_message's lambdas posted to the executor
     inbox           |-> <<>>,     \* frames the server has sent and on_read has not seen
     link            |-> "down"]   \* the transport: "down", "up" or "lost"

\* Nothing observed yet.
NoObs ==
    [conn          |-> 0,       \* successful handshakes so far
     event         |-> "none",  \* the type of the last event emitted
     announced     |-> 0,       \* the connection the last Connected event was emitted for
     written       |-> <<>>,    \* messages handed to async_write since then
     pings         |-> 0,       \* PING messages passed to send_message since then
     failures      |-> 0,       \* failed attempts and lost connections since then
     delay         |-> 0,       \* delay_seconds of the last schedule_reconnect
     disconnected  |-> FALSE,   \* disconnect() has been called
     late_attempts |-> 0,       \* connect() calls made after disconnect()
     late_expiry   |-> FALSE,   \* a timer handler ran without error after disconnect()
     last_sub      |-> <<>>,    \* the last SUBSCRIPTION passed to send_message on this connection
     acked         |-> {},      \* SUBSCRIPTIONs of this connection the server has answered
     early         |-> FALSE]   \* a SUBSCRIPTION was sent while the previous one was unanswered

\* The session of a specification that runs none.
WsUnused ==
    /\ ws = NewSession("Upbit", 0, 0, 0)
    /\ ws_io = NoIo
    /\ ws_obs = NoObs

(***************************************************************************)
(* PremiumCalculator data.  A premium is kept exact, as the pair           *)
(* <<numerator, denominator>> of (sell_krw - buy_krw) * 100 / buy_krw.     *)
(***************************************************************************)
\* Exchange in the order of its values 0..3, the order recalculate's loops take.
ExchangeOrder == <<"Upbit", "Bithumb", "Binance", "MEXC">>

is_krw_exchange(ex) == ex \in {"Upbit", "Bithumb"}

\* Not a number: the quotient 0 / 0.
NaN == <<0, 0>>

Zero == <<0, 1>>

Cells == Exchanges \X Exchanges

\* PremiumCalculator as constructed: every cell NaN, prices 0, default FX rate.
NewCalculator ==
    [prices_    |-> [ex \in Exchanges |-> 0],
     fx_rate_   |-> DefaultFxRate,
     matrix_    |-> [c \in Cells |-> NaN],
     threshold_ |-> 0,
     callback_  |-> FALSE]

\* No recalculate has run.
NoPremiumObs ==
    [updated   |-> FALSE,                  \* recalculate has run
     evaluated |-> FALSE,                  \* recalculate has run under the current settings
     previous  |-> [c \in Cells |-> NaN],  \* matrix_ as the last recalculate found it
     calls     |-> <<>>]                   \* the cells the last recalculate called back for

\* Threads that call update_price and update_fx_rate concurrently.
Writers == 1..NumWriters

\* No thread inside the calculator, mutex_ free, nothing returned yet.
NoPremiumThreads ==
    [mutex_   |-> 0,        \* 0: free, w: held exclusively by writer w
     writers  |-> [w \in Writers |-> [pc |-> "idle", k |-> 0, recalculations |-> 0]],
     inputs   |-> {},       \* every (prices_, fx_rate_) state there has been
     returned |-> FALSE,    \* get_matrix has returned a matrix
     mixed    |-> FALSE]    \* get_matrix has returned a matrix that no input state gives

\* The calculator of a specification that runs none.
PremiumUnused ==
    /\ premium = NewCalculator
    /\ premium_obs = NoPremiumObs
    /\ premium_threads = NoPremiumThreads

(***************************************************************************)
(* TransferManager (executor/transfer.hpp, transfer.cpp).  Amounts are     *)
(* whole XRP, durations and the steady clock are ticks.  A char array is   *)
(* the string it holds.                                                    *)
(***************************************************************************)
TransferStatuses ==
    {"Pending", "Processing", "Completed", "Failed", "Timeout", "Cancelled"}

\* A default-constructed TransferRequest.
DefaultTransferRequest ==
    [from |-> "Binance", to |-> "Upbit", coin |-> "XRP", amount |-> 0,
     to_address |-> [address |-> "", destination_tag |-> ""]]

\* A default-constructed TransferResult.
NewTransferResult ==
    [transfer_id |-> "", tx_hash |-> "", status |-> "Pending", amount |-> 0,
     error_message |-> ""]

NewTransferManager ==
    [order_clients_   |-> {},
     dry_run_         |-> FALSE,
     status_callback_ |-> FALSE,
     stats_           |-> [total_transfers |-> 0, successful |-> 0,
                           failed |-> 0, timeout |-> 0]]

\* No thread is inside the manager.
NoTransferCall ==
    [pc            |-> "idle",
     request       |-> DefaultTransferRequest,
     result        |-> NewTransferResult,
     now           |-> 0,       \* steady_clock::now()
     deadline      |-> 0,
     timeout       |-> 0,
     poll_interval |-> 0]

NoTransferObs ==
    [api            |-> {},     \* venue API functions the last call invoked
     withdraw_calls |-> 0,      \* calls of withdraw()
     status_calls   |-> 0,      \* calls of get_withdraw_status()
     callbacks      |-> 0,      \* invocations of status_callback_
     transitions    |-> 0,      \* polls whose status differs from the one before
     last           |-> "None"] \* the status the last successful poll observed

\* The transfer manager of a specification that runs none.
TransferUnused ==
    /\ transfer = NewTransferManager
    /\ transfer_call = NoTransferCall
    /\ transfer_obs = NoTransferObs
(***************************************************************************)
(* TokenBucketRateLimiter (common/rate_limiter.hpp).  The steady clock     *)
(* counts milliseconds, so refill's 0.001 s threshold is one tick; rate_   *)
(* is in tokens per tick.                                                  *)
(***************************************************************************)
\* TokenBucketRateLimiter(rate, burst) constructed at tick 0.
NewLimiter(rate, burst) ==
    [rate_ |-> rate, burst_ |-> burst, tokens_ |-> burst, last_refill_ |-> 0]

LimiterThreadIds == 1..LimiterThreads

NoLimiterThreads ==
    [t \in LimiterThreadIds |->
        [pc |-> "idle", now |-> 0, last |-> 0, elapsed |-> 0, current |-> 0,
         new_tokens |-> 0, calls |-> 0]]

NoLimiterObs ==
    [clock   |-> 0,                             \* steady_clock::now()
     granted |-> [k \in 0..MaxClock |-> 0]]     \* calls that returned true at tick k

\* The rate limiter of a specification that runs none.
LimiterUnused ==
    /\ limiter = NewLimiter(1, 1)
    /\ limiter_threads = NoLimiterThreads
    /\ limiter_obs = NoLimiterObs
(***************************************************************************)
(* The event delivery of a WebSocketClientBase session: event_callback_,   *)
(* event_queue_ and the counters of Stats.                                 *)
(***************************************************************************)
\* WebSocketClientBase::Stats as constructed.
NewStats == [messages_received |-> 0, bytes_received |-> 0, reconnect_count |-> 0]

NewEvents ==
    [event_callback_ |-> FALSE,
     event_queue_    |-> SPSCQueue(2 ^ EventQueueLog2),
     stats_          |-> NewStats]

NoEventsObs ==
    [emitted   |-> 0,       \* emit_event calls; the k-th event is the number k
     delivered |-> <<>>,    \* events handed to event_callback_
     refused   |-> <<>>,    \* events whose push returned false
     polled    |-> <<>>]    \* events the main thread has popped

\* The event delivery of a specification that emits none.
EventsUnused ==
    /\ events = NewEvents
    /\ events_obs = NoEventsObs
\* RecoveryQueue as constructed: queue_ empty, running_ false, no worker_.
\* worker is the position of the worker thread in worker_loop, plan the
\* local it executes, joining the caller of stop() waiting in join().
NewRecoveryQueue(has_callback) ==
    [queue_ |-> <<>>, running_ |-> FALSE, callback_ |-> has_callback,
     worker |-> "none", plan |-> 0, joining |-> FALSE, starts |-> 0]

NoRecoveryQueueObs ==
    [enqueued |-> 0, executed |-> <<>>, callbacks |-> <<>>, at_stop |-> 0,
     stopped |-> FALSE]

RecoveryQueueUnused ==
    rq = NewRecoveryQueue(FALSE) /\ rq_obs = NoRecoveryQueueObs
\* The venues whose books the analyzer of the model keeps.
AnalyzerVenues == {"Upbit", "Binance"}

\* An order book (and the metrics computed from it) as the update that
\* wrote it left it: both sides carry the number of that update. Copying
\* one is not atomic: the sides are copied one after the other.
BookOf(version) == [bid |-> version, ask |-> version]

\* OrderBookAnalyzer as constructed: every book cleared, mutex_ free, the
\* writer and the readers outside every call.
NewAnalyzer ==
    [orderbooks_ |-> [ex \in AnalyzerVenues |-> BookOf(0)],
     metrics_ |-> [ex \in AnalyzerVenues |-> BookOf(0)],
     mutex_ |-> [unique |-> FALSE, shared |-> {}],
     writer |-> [pc |-> "idle", ex |-> "Upbit", ob |-> BookOf(0)],
     readers |-> [r \in 1..AnalyzerReaders |->
                    [pc |-> "idle", call |-> "none", ex |-> "Upbit",
                     out |-> BookOf(0)]]]

AnalyzerUnused ==
    analyzer = NewAnalyzer /\ analyzer_obs = [updates |-> 0]
\* The executor and the recovery manager of a specification that runs neither.
ExecUnused ==
    /\ entry = "none"
    /\ pc = "idle"
    /\ request = [buy_order |-> DefaultOrder, sell_order |-> DefaultOrder]
    /\ result = EmptyResult
    /\ plan = PlainPlan("None")
    /\ ExecIdle
    /\ CallFresh

\* Every state machine that a specification does not run stays as constructed.
Unused(used) ==
    /\ IF "exec" \in used THEN TRUE ELSE ExecUnused
    /\ IF "spsc" \in used THEN TRUE ELSE SPSCUnused
    /\ IF "mpsc" \in used THEN TRUE ELSE MPSCUnused
    /\ IF "pool" \in used THEN TRUE ELSE PoolUnused
    /\ IF "ws" \in used THEN TRUE ELSE WsUnused
    /\ IF "premium" \in used THEN TRUE ELSE PremiumUnused
    /\ IF "transfer" \in used THEN TRUE ELSE TransferUnused
    /\ IF "limiter" \in used THEN TRUE ELSE LimiterUnused
    /\ IF "events" \in used THEN TRUE ELSE EventsUnused
    /\ IF "rq" \in used THEN TRUE ELSE RecoveryQueueUnused
    /\ IF "analyzer" \in used THEN TRUE ELSE AnalyzerUnused

(***************************************************************************)
(* SpecPlan: create_plan called directly on a request and a result.        *)
(***************************************************************************)
PlanInit ==
    /\ entry = "create_plan"
    /\ pc = "call"
    /\ request \in PlanRequests
    /\ result \in [buy_result : Legs, sell_result : Legs]
    /\ plan = PlainPlan("None")
    /\ ExecIdle
    /\ CallFresh
    /\ Unused({"exec"})

\* RecoveryManager::create_plan(request, result)
CreatePlanCall ==
    /\ entry = "create_plan"
    /\ pc = "call"
    /\ plan' = create_plan(request, result, max_retries_)
    /\ rm_stats_' = create_plan_stats(rm_stats_, result)
    /\ pc' = "returned"
    /\ UNCHANGED <<outside_exec, entry, request, order_clients_, recovery_,
                   auto_recovery_, rm_order_clients_, max_retries_, dry_run_, buy_future,
                   sell_future, result, stats_, recovery_result, place_calls,
                   callbacks, attempt_log>>

PlanNext == CreatePlanCall

SpecPlan == PlanInit /\ [][PlanNext]_vars

(***************************************************************************)
(* SpecExec: DualOrderExecutor::execute_sync and                           *)
(* RecoveryManager::execute_recovery.                                      *)
(***************************************************************************)
\* The client maps the executor and the recovery manager are built with.
ClientMaps == {{}, {"Binance"}, {"Upbit", "Binance"}}

\* The requests handed to execute_sync: any venues, sides and quantities.
ExecRequests ==
    {[buy_order |-> LegOrder(b, bs, "XRPUSDT", bqty),
      sell_order |-> LegOrder(s, ss, "KRW-XRP", sqty)] :
        b \in Exchanges, s \in Exchanges, bs \in OrderSides, ss \in OrderSides,
        bqty \in {-1, 0, 1}, sqty \in {0, 1}}

\* The plans handed to execute_recovery directly, as the tests build them.
DirectPlans ==
    {[action |-> a,
      recovery_order |->
         [exchange |-> ex, side |-> "Sell", type |-> "Market",
          symbol |-> "XRPUSDT", quantity |-> 1, price |-> 0],
      retry_count |-> 0,
      max_retries |-> m] :
        a \in RecoveryActions, ex \in {"Binance", "MEXC"}, m \in 0..MaxRetries}

\* What OrderClientBase::place_order may answer to an order: an Error, or an
\* OrderResult of any status that fills no more than was asked for.
VenueOutcomes(order) ==
    {ErrorLeg("ExchangeError")} \cup
    {ResultLeg(st, q) : st \in OrderStatuses,
                        q \in 0..(IF order.quantity > 0 THEN order.quantity ELSE 0)}

\* DualOrderExecutor::has_exchange
has_exchange(clients, ex) == ex \in clients

\* execute_sync up to its second early return: the result its checks leave.
validate(req, clients) ==
    IF ~is_valid(req)
    THEN [buy_result |-> ErrorLeg("InvalidRequest"),
          sell_result |-> ErrorLeg("InvalidRequest")]
    ELSE [buy_result |->
             IF ~has_exchange(clients, req.buy_order.exchange)
             THEN ErrorLeg("InvalidRequest") ELSE EmptyLeg,
          sell_result |->
             IF ~has_exchange(clients, req.sell_order.exchange)
             THEN ErrorLeg("InvalidRequest") ELSE EmptyLeg]

\* execute_sync returns early when a leg carries an error after the checks.
rejected(res) == res.buy_result.error # "None" \/ res.sell_result.error # "None"

\* DualOrderExecutor::execute_single / RecoveryManager::execute_order: the
\* SingleOrderResult for the venue's answer `out`.
execute_single(clients, order, out) ==
    IF order.exchange \notin clients THEN ErrorLeg("InvalidRequest") ELSE out

\* place_order is reached only when the venue has a client.
count_place(calls, clients, order) ==
    IF order.exchange \notin clients THEN calls
    ELSE [calls EXCEPT ![order.exchange] = @ + 1]

\* ExecutorStats::record_result (the outcome counters).
record_result(st, res) ==
    LET counted == [st EXCEPT !.total_requests = @ + 1]
    IN  IF both_success(res) THEN [counted EXCEPT !.successful_dual = @ + 1]
        ELSE IF partial_fill(res) THEN [counted EXCEPT !.partial_success = @ + 1]
        ELSE [counted EXCEPT !.total_failures = @ + 1]

\* A faulty variant of record_recovery: only successful recoveries are counted.
record_recovery_success_only(st, success) ==
    [st EXCEPT !.recovery_attempts = IF success THEN @ + 1 ELSE @,
               !.recovery_success = IF success THEN @ + 1 ELSE @]

\* ExecutorStats::record_recovery
record_recovery(st, success) ==
    [st EXCEPT !.recovery_attempts = @ + 1,
               !.recovery_success = IF success THEN @ + 1 ELSE @]

\* execute_sync's condition for calling handle_recovery.
wants_recovery(res, auto, recovery) == partial_fill(res) /\ auto /\ recovery

ExecInit ==
    /\ CallFresh
    /\ Unused({"exec"})
    /\ \/ /\ entry = "execute_sync"
          /\ pc = "start"
          /\ request \in ExecRequests
          /\ result = EmptyResult
          /\ plan = PlainPlan("None")
          /\ order_clients_ \in ClientMaps
          /\ auto_recovery_ \in BOOLEAN
          /\ recovery_ \in BOOLEAN
          /\ IF recovery_
             THEN /\ rm_order_clients_ \in {{}, {"Upbit", "Binance"}}
                  /\ max_retries_ \in 0..MaxRetries
                  /\ dry_run_ \in BOOLEAN
             ELSE /\ rm_order_clients_ = {}
                  /\ max_retries_ = DefaultMaxRetries
                  /\ dry_run_ = FALSE
       \/ /\ entry = "execute_recovery"
          /\ pc = "retry_begin"
          /\ request = [buy_order |-> LegOrder("Binance", "Buy", "XRPUSDT", 1),
                        sell_order |-> LegOrder("Upbit", "Sell", "KRW-XRP", 1)]
          /\ result = EmptyResult
          /\ plan \in DirectPlans
          /\ order_clients_ = {}
          /\ auto_recovery_ = TRUE
          /\ recovery_ = TRUE
          /\ rm_order_clients_ \in {{}, {"Binance"}}
          /\ max_retries_ = DefaultMaxRetries
          /\ dry_run_ \in BOOLEAN

\* The executor's and the recovery manager's configuration.
config_vars == <<entry, request, order_clients_, recovery_, auto_recovery_,
                 rm_order_clients_, max_retries_, dry_run_>>

\* execute_sync, lines 35-64: validity and client checks, with their early returns.
Validate ==
    /\ entry = "execute_sync"
    /\ pc = "start"
    /\ result' = validate(request, order_clients_)
    /\ pc' = IF rejected(result') THEN "returned" ELSE "spawn_buy"
    /\ UNCHANGED <<outside_exec, config_vars, buy_future, sell_future, stats_, plan,
                   recovery_result, rm_stats_, place_calls, callbacks, attempt_log>>

\* execute_sync: std::async(std::launch::async, ...) for the buy leg.
SpawnBuy ==
    /\ pc = "spawn_buy"
    /\ buy_future' = [buy_future EXCEPT !.st = "running"]
    /\ pc' = "spawn_sell"
    /\ UNCHANGED <<outside_exec, config_vars, sell_future, result, stats_, plan,
                   recovery_result, rm_stats_, place_calls, callbacks, attempt_log>>

\* execute_sync: std::async(std::launch::async, ...) for the sell leg.
SpawnSell ==
    /\ pc = "spawn_sell"
    /\ sell_future' = [sell_future EXCEPT !.st = "running"]
    /\ pc' = "get_buy"
    /\ UNCHANGED <<outside_exec, config_vars, buy_future, result, stats_, plan,
                   recovery_result, rm_stats_, place_calls, callbacks, attempt_log>>

\* The buy leg's task: execute_single on its own thread.
RunBuy ==
    /\ buy_future.st = "running"
    /\ \E out \in VenueOutcomes(request.buy_order) :
          buy_future' = [buy_future EXCEPT
                            !.st = "ready",
                            !.value = execute_single(order_clients_, request.buy_order, out)]
    /\ place_calls' = count_place(place_calls, order_clients_, request.buy_order)
    /\ UNCHANGED <<outside_exec, config_vars, pc, sell_future, result, stats_, plan,
                   recovery_result, rm_stats_, callbacks, attempt_log>>

\* The sell leg's task: execute_single on its own thread.
RunSell ==
    /\ sell_future.st = "running"
    /\ \E out \in VenueOutcomes(request.sell_order) :
          sell_future' = [sell_future EXCEPT
                            !.st = "ready",
                            !.value = execute_single(order_clients_, request.sell_order, out)]
    /\ place_calls' = count_place(place_calls, order_clients_, request.sell_order)
    /\ UNCHANGED <<outside_exec, config_vars, pc, buy_future, result, stats_, plan,
                   recovery_result, rm_stats_, callbacks, attempt_log>>

\* A faulty variant of future_ready: get returns whatever the task holds, without waiting.
future_ready_nowait(f) == f.st # "none"

\* future::get blocks until the task's value is ready.
future_ready(f) == f.st = "ready"

\* execute_sync: result.buy_result = buy_future.get()
GetBuy ==
    /\ pc = "get_buy"
    /\ future_ready(buy_future)
    /\ result' = [result EXCEPT !.buy_result = buy_future.value]
    /\ buy_future' = [buy_future EXCEPT !.retrieved = TRUE]
    /\ pc' = "get_sell"
    /\ UNCHANGED <<outside_exec, config_vars, sell_future, stats_, plan,
                   recovery_result, rm_stats_, place_calls, callbacks, attempt_log>>

\* execute_sync: result.sell_result = sell_future.get()
GetSell ==
    /\ pc = "get_sell"
    /\ future_ready(sell_future)
    /\ result' = [result EXCEPT !.sell_result = sell_future.value]
    /\ sell_future' = [sell_future EXCEPT !.retrieved = TRUE]
    /\ pc' = "record"
    /\ UNCHANGED <<outside_exec, config_vars, buy_future, stats_, plan,
                   recovery_result, rm_stats_, place_calls, callbacks, attempt_log>>

\* execute_sync: stats_.record_result(result), then the auto-recovery test.
Record ==
    /\ pc = "record"
    /\ stats_' = record_result(stats_, result)
    /\ pc' = IF wants_recovery(result, auto_recovery_, recovery_)
             THEN "handle_recovery" ELSE "returned"
    /\ UNCHANGED <<outside_exec, config_vars, buy_future, sell_future, result, plan,
                   recovery_result, rm_stats_, place_calls, callbacks, attempt_log>>

\* handle_recovery up to execute_recovery: the plan and what it decides.
HandleRecovery ==
    /\ pc = "handle_recovery"
    /\ plan' = create_plan(request, result, max_retries_)
    /\ rm_stats_' = create_plan_stats(rm_stats_, result)
    /\ pc' = IF plan'.action = "None" \/ plan'.action = "ManualIntervention"
             THEN "returned" ELSE "retry_begin"
    /\ callbacks' = IF plan'.action = "ManualIntervention" THEN callbacks + 1
                    ELSE callbacks
    /\ UNCHANGED <<outside_exec, config_vars, buy_future, sell_future, result, stats_,
                   recovery_result, place_calls, attempt_log>>

\* execute_recovery -> execute_with_retry, up to the while loop.
RetryBegin ==
    /\ pc = "retry_begin"
    /\ IF ~needs_execution(plan)
       THEN /\ recovery_result' = [plan |-> plan, result |-> EmptyLeg, success |-> FALSE]
            /\ rm_stats_' = rm_stats_
            /\ pc' = "retry_done"
       ELSE /\ recovery_result' = [recovery_result EXCEPT !.success = FALSE]
            /\ rm_stats_' = [rm_stats_ EXCEPT !.executions = @ + 1]
            /\ pc' = "retry_check"
    /\ UNCHANGED <<outside_exec, config_vars, buy_future, sell_future, result, stats_, plan,
                   place_calls, callbacks, attempt_log>>

\* execute_with_retry: the while condition, the dry-run return, the exhausted exit.
RetryCheck ==
    /\ pc = "retry_check"
    /\ IF ~can_retry(plan)
       THEN /\ recovery_result' = [recovery_result EXCEPT !.plan = plan, !.success = FALSE]
            /\ rm_stats_' = [rm_stats_ EXCEPT !.failures = @ + 1]
            /\ pc' = "retry_done"
       ELSE IF dry_run_
       THEN /\ recovery_result' = [recovery_result EXCEPT !.plan = plan, !.success = TRUE]
            /\ rm_stats_' = [rm_stats_ EXCEPT !.successes = @ + 1]
            /\ pc' = "retry_done"
       ELSE /\ UNCHANGED <<recovery_result, rm_stats_>>
            /\ pc' = "attempt"
    /\ UNCHANGED <<outside_exec, config_vars, buy_future, sell_future, result, stats_, plan,
                   place_calls, callbacks, attempt_log>>

\* Where execute_with_retry goes after a failed attempt.
after_failure(p) == IF can_retry(p) THEN "sleep" ELSE "retry_check"

\* execute_with_retry: one execute_order and the branch on its result.
Attempt ==
    /\ pc = "attempt"
    /\ \E out \in VenueOutcomes(plan.recovery_order) :
          LET leg == execute_single(rm_order_clients_, plan.recovery_order, out)
          IN  IF is_success(leg)
              THEN /\ recovery_result' = [plan |-> plan, result |-> leg, success |-> TRUE]
                   /\ rm_stats_' = [rm_stats_ EXCEPT !.successes = @ + 1]
                   /\ plan' = plan
                   /\ attempt_log' = Append(attempt_log, "ok")
                   /\ pc' = "retry_done"
              ELSE /\ recovery_result' = [recovery_result EXCEPT !.result = leg]
                   /\ rm_stats_' = [rm_stats_ EXCEPT !.retries = @ + 1]
                   /\ plan' = increment_retry(plan)
                   /\ attempt_log' = Append(attempt_log, "fail")
                   /\ pc' = after_failure(plan')
    /\ place_calls' = count_place(place_calls, rm_order_clients_, plan.recovery_order)
    /\ UNCHANGED <<outside_exec, config_vars, buy_future, sell_future, result, stats_, callbacks>>

\* execute_with_retry: std::this_thread::sleep_for(plan.retry_delay)
Sleep ==
    /\ pc = "sleep"
    /\ attempt_log' = Append(attempt_log, "sleep")
    /\ pc' = "retry_check"
    /\ UNCHANGED <<outside_exec, config_vars, buy_future, sell_future, result, stats_, plan,
                   recovery_result, rm_stats_, place_calls, callbacks>>

\* execute_recovery has returned: handle_recovery records it and calls back;
\* a direct caller just gets the RecoveryResult.
RetryDone ==
    /\ pc = "retry_done"
    /\ IF entry = "execute_sync"
       THEN /\ stats_' = record_recovery(stats_, recovery_result.success)
            /\ callbacks' = callbacks + 1
       ELSE UNCHANGED <<stats_, callbacks>>
    /\ pc' = "returned"
    /\ UNCHANGED <<outside_exec, config_vars, buy_future, sell_future, result, plan,
                   recovery_result, rm_stats_, place_calls, attempt_log>>

ExecNext ==
    \/ Validate
    \/ SpawnBuy
    \/ SpawnSell
    \/ RunBuy
    \/ RunSell
    \/ GetBuy
    \/ GetSell
    \/ Record
    \/ HandleRecovery
    \/ RetryBegin
    \/ RetryCheck
    \/ Attempt
    \/ Sleep
    \/ RetryDone

SpecExec == ExecInit /\ [][ExecNext]_vars

(***************************************************************************)
(* Claims about the recovery planner (SpecPlan).                           *)
(***************************************************************************)
\* A leg that clearly succeeded: is_success and not is_failed.
ClearSuccess(leg) == is_success(leg) /\ ~is_failed(leg)

\* A leg that clearly failed: is_failed and not is_success.
ClearFailure(leg) == is_failed(leg) /\ ~is_success(leg)

\* The action the recovery table names for two leg outcomes.
TableAction(res) ==
    IF ClearSuccess(res.buy_result) /\ ClearSuccess(res.sell_result) THEN "None"
    ELSE IF ClearFailure(res.buy_result) /\ ClearFailure(res.sell_result) THEN "None"
    ELSE IF ClearSuccess(res.buy_result) /\ ClearFailure(res.sell_result) THEN "SellBought"
    ELSE IF ClearFailure(res.buy_result) /\ ClearSuccess(res.sell_result) THEN "BuySold"
    ELSE "ManualIntervention"

PlanReturned == entry = "create_plan" /\ pc = "returned"

\* C1: for every pair of leg outcomes create_plan returns the action of the
\* recovery table: None when both legs succeeded or both failed, SellBought
\* when only the buy leg succeeded, BuySold when only the sell leg succeeded,
\* and ManualIntervention when a leg is neither a clear success nor a clear
\* failure.
C1_RecoveryTable == PlanReturned => plan.action = TableAction(result)

\* C2: a SellBought / BuySold plan carries a Market order on the venue of the
\* leg that succeeded, with the opposite side and that leg's filled quantity.
C2_CorrectiveOrder ==
    PlanReturned =>
        /\ plan.action = "SellBought" =>
              /\ is_success(result.buy_result)
              /\ plan.recovery_order.type = "Market"
              /\ plan.recovery_order.exchange = request.buy_order.exchange
              /\ plan.recovery_order.side = "Sell"
              /\ plan.recovery_order.quantity = result.buy_result.filled_qty
        /\ plan.action = "BuySold" =>
              /\ is_success(result.sell_result)
              /\ plan.recovery_order.type = "Market"
              /\ plan.recovery_order.exchange = request.sell_order.exchange
              /\ plan.recovery_order.side = "Buy"
              /\ plan.recovery_order.quantity = result.sell_result.filled_qty

\* C2 witness: a SellBought plan whose leg filled less than was requested.
C2_Witness ==
    /\ PlanReturned
    /\ plan.action = "SellBought"
    /\ result.buy_result.filled_qty < request.buy_order.quantity
    /\ plan.recovery_order.quantity = result.buy_result.filled_qty

(***************************************************************************)
(* Claims about execute_sync and execute_recovery (SpecExec).              *)
(***************************************************************************)
SyncReturned == entry = "execute_sync" /\ pc = "returned"

\* C3 as claimed: with auto_recovery on, a partial_fill outcome always gets a
\* plan, and every plan but ManualIntervention is executed and counted once.
C3_AutoRecoveryAsClaimed ==
    (SyncReturned /\ auto_recovery_ /\ partial_fill(result)) =>
        /\ rm_stats_.total_plans = 1
        /\ plan.action # "ManualIntervention" =>
              (rm_stats_.executions = 1 /\ stats_.recovery_attempts = 1)

\* C3 amended: with auto_recovery on and a recovery manager set, a
\* partial_fill outcome gets exactly one plan before execute_sync returns; a
\* SellBought / BuySold plan is executed once and recovery_attempts rises by
\* exactly one, any other plan is not executed and leaves the counter alone.
C3_AutoRecovery ==
    /\ (SyncReturned /\ auto_recovery_ /\ recovery_ /\ partial_fill(result)) =>
          /\ rm_stats_.total_plans = 1
          /\ IF plan.action \in {"SellBought", "BuySold"}
             THEN /\ rm_stats_.executions = 1
                  /\ stats_.recovery_attempts = 1
                  /\ recovery_result.plan.action = plan.action
             ELSE /\ rm_stats_.executions = 0
                  /\ stats_.recovery_attempts = 0
    /\ SyncReturned => stats_.recovery_attempts = rm_stats_.executions

\* C3 witness: a recovery that ran an order and was counted.
C3_Witness ==
    /\ SyncReturned
    /\ auto_recovery_
    /\ partial_fill(result)
    /\ plan.action = "SellBought"
    /\ attempt_log # <<>>
    /\ ~recovery_result.success
    /\ stats_.recovery_attempts = 1

\* C4: both_success() is true exactly when both legs succeeded and are filled,
\* partial_fill() exactly when exactly one leg succeeded, both_failed()
\* exactly when neither leg succeeded, for every result execute_sync returns.
C4_OutcomePredicates ==
    SyncReturned =>
        LET b == result.buy_result
            s == result.sell_result
        IN  /\ both_success(result) <=>
                  (is_success(b) /\ is_success(s) /\ b.status = "Filled" /\ s.status = "Filled")
            /\ partial_fill(result) <=> (is_success(b) # is_success(s))
            /\ both_failed(result) <=> (~is_success(b) /\ ~is_success(s))

\* The request passes every check of execute_sync.
Accepted ==
    /\ request.buy_order.exchange # request.sell_order.exchange
    /\ request.buy_order.side = "Buy"
    /\ request.sell_order.side = "Sell"
    /\ request.buy_order.quantity > 0
    /\ request.sell_order.quantity > 0
    /\ request.buy_order.exchange \in order_clients_
    /\ request.sell_order.exchange \in order_clients_

\* C5: both legs are dispatched before either result is consumed, and the
\* result is assembled, recorded and returned only after both leg tasks have
\* completed.
C5_JoinBeforeAssemble ==
    /\ (buy_future.retrieved \/ sell_future.retrieved) =>
          (buy_future.st # "none" /\ sell_future.st # "none")
    /\ buy_future.retrieved =>
          (buy_future.st = "ready" /\ result.buy_result = buy_future.value)
    /\ sell_future.retrieved =>
          (sell_future.st = "ready" /\ result.sell_result = sell_future.value)
    /\ (stats_.total_requests > 0 \/ (SyncReturned /\ Accepted)) =>
          /\ buy_future.retrieved
          /\ sell_future.retrieved
          /\ stats_.total_requests = 1

\* C5 witness: the sell leg finished first, the caller waited for the buy leg,
\* and the call returned with both results recorded.
C5_Witness ==
    /\ SyncReturned
    /\ Accepted
    /\ stats_.total_requests = 1
    /\ is_success(result.buy_result)
    /\ is_success(result.sell_result)

\* No place_order call has been made on any venue.
NoOrderPlaced == \A e \in Exchanges : place_calls[e] = 0

Attempts == SelectSeq(attempt_log, LAMBDA x : x # "sleep")

\* Consecutive attempts are separated by exactly one sleep.
SleepSeparated ==
    /\ \A i \in 1..Len(attempt_log) :
          attempt_log[i] = "sleep" <=> (i % 2 = 0)
    /\ Len(attempt_log) > 0 => attempt_log[Len(attempt_log)] # "sleep"

RetryFinished == pc = "retry_done" /\ needs_execution(plan)

spsc_next(index, mask) == BitAnd(index + 1, mask)

\* A faulty variant of spsc_full: an ordered comparison, wrong once the ring wraps.
spsc_full_plain_compare(next, tail) == next < tail

\* push, line 62: "next == tail_.load(acquire)" is the full test.
spsc_full(next, tail) == next = tail

\* A faulty variant of spsc_empty: an ordered comparison, wrong once the ring wraps.
spsc_empty_plain_compare(tail, head) == tail > head

\* pop, line 89: "tail == head_.load(acquire)" is the empty test.
spsc_empty(tail, head) == tail = head

\* Items whose push returned true and that pop has not returned yet.
spsc_held == Len(sq_history.pushed) - Len(sq_history.popped)

SPSCInit ==
    /\ Unused({"spsc"})
    /\ sq \in {SPSCQueue(c) : c \in Capacities}
    /\ SPSCFresh

\* push, lines 59-60: the producer calls push with a fresh item and loads head_.
SPSCPushBegin ==
    /\ sq_producer.pc = "idle"
    /\ sq_history.calls < MaxPushes
    /\ sq_producer' = [pc   |-> "check",
                       head |-> sq.head_,
                       next |-> spsc_next(sq.head_, sq.mask_),
                       item |-> sq_history.calls + 1,
                       ret  |-> "none",
                       seen |-> 0]
    /\ sq_history' = [sq_history EXCEPT !.calls = @ + 1]
    /\ UNCHANGED <<outside_spsc, sq, sq_consumer>>

\* push, lines 62-64: load tail_ and return false when the ring is full.
SPSCPushCheck ==
    /\ sq_producer.pc = "check"
    /\ sq_producer' =
         IF spsc_full(sq_producer.next, sq.tail_)
         THEN [sq_producer EXCEPT !.pc = "idle", !.ret = "false", !.seen = spsc_held]
         ELSE [sq_producer EXCEPT !.pc = "write", !.seen = spsc_held]
    /\ UNCHANGED <<outside_spsc, sq, sq_consumer, sq_history>>

\* push, line 66: buffer_[head] = item.
SPSCPushWrite ==
    /\ sq_producer.pc = "write"
    /\ sq' = [sq EXCEPT !.buffer_[sq_producer.head] = sq_producer.item]
    /\ sq_producer' = [sq_producer EXCEPT !.pc = "publish"]
    /\ UNCHANGED <<outside_spsc, sq_consumer, sq_history>>

\* push, lines 67-68: head_.store(next, release); return true.
SPSCPushPublish ==
    /\ sq_producer.pc = "publish"
    /\ sq' = [sq EXCEPT !.head_ = sq_producer.next]
    /\ sq_producer' = [sq_producer EXCEPT !.pc = "idle", !.ret = "true"]
    /\ sq_history' = [sq_history EXCEPT !.pushed = Append(@, sq_producer.item)]
    /\ UNCHANGED <<outside_spsc, sq_consumer>>

\* pop, line 87: the consumer calls pop and loads tail_.
SPSCPopBegin ==
    /\ sq_consumer.pc = "idle"
    /\ sq_consumer' = [pc   |-> "check",
                       tail |-> sq.tail_,
                       item |-> 0,
                       ret  |-> "none",
                       seen |-> 0]
    /\ UNCHANGED <<outside_spsc, sq, sq_producer, sq_history>>

\* pop, lines 89-91: load head_ and return false when the ring is empty.
SPSCPopCheck ==
    /\ sq_consumer.pc = "check"
    /\ sq_consumer' =
         IF spsc_empty(sq_consumer.tail, sq.head_)
         THEN [sq_consumer EXCEPT !.pc = "idle", !.ret = "false", !.seen = spsc_held]
         ELSE [sq_consumer EXCEPT !.pc = "read", !.seen = spsc_held]
    /\ UNCHANGED <<outside_spsc, sq, sq_producer, sq_history>>

\* pop, line 93: item = std::move(buffer_[tail]).
SPSCPopRead ==
    /\ sq_consumer.pc = "read"
    /\ sq_consumer' = [sq_consumer EXCEPT !.pc = "publish",
                                          !.item = sq.buffer_[sq_consumer.tail]]
    /\ UNCHANGED <<outside_spsc, sq, sq_producer, sq_history>>

\* pop, lines 94-95: tail_.store((tail + 1) & mask_, release); return true.
SPSCPopPublish ==
    /\ sq_consumer.pc = "publish"
    /\ sq' = [sq EXCEPT !.tail_ = spsc_next(sq_consumer.tail, sq.mask_)]
    /\ sq_consumer' = [sq_consumer EXCEPT !.pc = "idle", !.ret = "true"]
    /\ sq_history' = [sq_history EXCEPT !.popped = Append(@, sq_consumer.item)]
    /\ UNCHANGED <<outside_spsc, sq_producer>>

\* One step of the producer thread.
SPSCProducerStep ==
    \/ SPSCPushBegin
    \/ SPSCPushCheck
    \/ SPSCPushWrite
    \/ SPSCPushPublish

\* One step of the consumer thread.
SPSCConsumerStep ==
    \/ SPSCPopBegin
    \/ SPSCPopCheck
    \/ SPSCPopRead
    \/ SPSCPopPublish

SPSCNext ==
    \/ SPSCPushBegin
    \/ SPSCPushCheck
    \/ SPSCPushWrite
    \/ SPSCPushPublish
    \/ SPSCPopBegin
    \/ SPSCPopCheck
    \/ SPSCPopRead
    \/ SPSCPopPublish

SpecSPSC == SPSCInit /\ [][SPSCNext]_vars

(***************************************************************************)
(* Claims about the SPSC queue.                                            *)
(***************************************************************************)
\* s is an initial segment of t.
IsPrefix(s, t) == Len(s) <= Len(t) /\ \A i \in 1..Len(s) : s[i] = t[i]

\* The slot that holds the i-th item still in the ring, counted from tail_.
spsc_slot(i) == BitAnd(sq.tail_ + i, sq.mask_)

\* C8: for an SPSCQueue of capacity 2^k and any interleaving of one
\* producer and one consumer, the items pop has returned are, in order and
\* without repetition, the first of the items whose push returned true; the
\* accepted items not yet popped sit untouched in the ring, in push order,
\* from tail_ on; and no slot is written while the consumer reads it.  So
\* every accepted item is popped exactly once and in push order.
C8_SPSCExactlyOnceInOrder ==
    /\ IsPrefix(sq_history.popped, sq_history.pushed)
    /\ \A i \in 1..Len(sq_history.pushed) : \A j \in 1..Len(sq_history.pushed) :
           sq_history.pushed[i] = sq_history.pushed[j] => i = j
    /\ spsc_held = BitAnd(sq.head_ + sq.capacity_ - sq.tail_, sq.mask_)
    /\ \A i \in 0..(spsc_held - 1) :
           sq.buffer_[spsc_slot(i)] = sq_history.pushed[Len(sq_history.popped) + 1 + i]
    /\ ~(sq_producer.pc = "write" /\ sq_consumer.pc = "read"
         /\ sq_producer.head = sq_consumer.tail)
    /\ (sq_consumer.pc = "publish") =>
           /\ Len(sq_history.popped) < Len(sq_history.pushed)
           /\ sq_consumer.item = sq_history.pushed[Len(sq_history.popped) + 1]

\* The ring wrapped around, a push was refused, and everything accepted was
\* popped in order.
C8_Witness ==
    /\ sq.capacity_ = 4
    /\ Len(sq_history.pushed) > sq.capacity_
    /\ Len(sq_history.pushed) < sq_history.calls
    /\ sq_history.popped = sq_history.pushed
    /\ sq_producer.pc = "idle"
    /\ sq_consumer.pc = "idle"

\* C10: for an SPSCQueue of capacity C = 2^k, a push call returns false if
\* and only if the queue holds C - 1 items when push tests it, a pop call
\* returns false if and only if the queue holds no item when pop tests it,
\* and a thread inside push or pop can always take its next step whatever
\* the other thread does (neither call blocks).
C10_SPSCFullEmpty ==
    /\ (sq_producer.pc = "idle" /\ sq_producer.ret = "false")
           => sq_producer.seen = sq.capacity_ - 1
    /\ (sq_producer.pc \in {"write", "publish"}
        \/ (sq_producer.pc = "idle" /\ sq_producer.ret = "true"))
           => sq_producer.seen # sq.capacity_ - 1
    /\ (sq_consumer.pc = "idle" /\ sq_consumer.ret = "false")
           => sq_consumer.seen = 0
    /\ (sq_consumer.pc \in {"read", "publish"}
        \/ (sq_consumer.pc = "idle" /\ sq_consumer.ret = "true"))
           => sq_consumer.seen # 0
    /\ spsc_held \in 0..(sq.capacity_ - 1)
    /\ sq_producer.pc # "idle" => ENABLED SPSCProducerStep
    /\ sq_consumer.pc # "idle" => ENABLED SPSCConsumerStep

\* A push was refused on a full ring of capacity 4 and a pop was refused on
\* an empty one, with accepted pushes and successful pops in between.
C10_Witness ==
    /\ sq.capacity_ = 4
    /\ sq_producer.pc = "idle" /\ sq_producer.ret = "false"
    /\ sq_producer.seen = 3
    /\ sq_consumer.pc = "idle" /\ sq_consumer.ret = "false"
    /\ Len(sq_history.popped) >= 1

(***************************************************************************)
(* SpecMPSC: an MPSCQueue with several producer threads calling push and   *)
(* one consumer thread calling pop.  Every atomic operation and every      *)
(* access to a slot's data is a step of its own.                           *)
(***************************************************************************)
\* The slot a ticket (a value of head_ or tail_) falls on: index & mask_.
mpsc_slot(index) == BitAnd(index, mq.mask_)

\* Items whose push returned true, over all producers.
mpsc_accepted ==
    UNION {{mq_history.pushed[p][i] : i \in 1..Len(mq_history.pushed[p])} :
              p \in Producers}

\* Items whose push returned true and that pop has not returned yet.
mpsc_held == Cardinality(mpsc_accepted) - Len(mq_history.popped)

\* No thread but producer p is inside a call.
mpsc_alone(p) ==
    /\ \A o \in Producers \ {p} : mq_producers[o].pc = "idle"
    /\ mq_consumer.pc = "idle"

\* Some producer has won the CAS for ticket tail_ and has not yet published it.
mpsc_tail_pending ==
    \E o \in Producers :
        /\ mq_producers[o].pc \in {"write", "publish"}
        /\ mq_producers[o].head = mq.tail_

MPSCInit ==
    /\ Unused({"mpsc"})
    /\ mq \in {MPSCQueue(c) : c \in Capacities}
    /\ MPSCFresh

\* push, line 164: producer p calls push with its next item and loads head_.
MPSCPushBegin(p) ==
    /\ mq_producers[p].pc = "idle"
    /\ mq_producers[p].calls < MaxProducerPushes
    /\ mq_producers' = [mq_producers EXCEPT ![p] =
           [pc      |-> "turn",
            head    |-> mq.head_,
            item    |-> <<p, mq_producers[p].calls + 1>>,
            ret     |-> "none",
            calls   |-> mq_producers[p].calls + 1,
            seen    |-> 0,
            claimed |-> 0,
            alone   |-> FALSE]]
    /\ UNCHANGED <<outside_mpsc, mq, mq_consumer, mq_history>>

\* push, lines 167-184: load the slot's turn and branch on it: equal to head
\* goes on to the CAS, smaller returns false (full), larger reloads head_.
MPSCPushTurn(p) ==
    /\ mq_producers[p].pc = "turn"
    /\ LET head == mq_producers[p].head
           turn == mq.slots_[mpsc_slot(head)].turn
           observed == [mq_producers[p] EXCEPT !.seen = mpsc_held,
                                               !.claimed = mq.head_ - mq.tail_,
                                               !.alone = mpsc_alone(p)]
       IN  mq_producers' = [mq_producers EXCEPT ![p] =
               IF turn = head
               THEN [observed EXCEPT !.pc = "cas"]
               ELSE IF turn < head
                    THEN [observed EXCEPT !.pc = "idle", !.ret = "false"]
                    ELSE [observed EXCEPT !.pc = "reload"]]
    /\ UNCHANGED <<outside_mpsc, mq, mq_consumer, mq_history>>

\* push, line 183: head = head_.load(relaxed), then around the loop again.
MPSCPushReload(p) ==
    /\ mq_producers[p].pc = "reload"
    /\ mq_producers' = [mq_producers EXCEPT ![p] =
           [@ EXCEPT !.pc = "turn", !.head = mq.head_]]
    /\ UNCHANGED <<outside_mpsc, mq, mq_consumer, mq_history>>

\* push, lines 172-173: head_.compare_exchange_weak(head, head + 1).  It
\* succeeds only when head_ still equals head; it may also fail then
\* (spuriously); a failure stores the current head_ into head and loops.
MPSCPushCas(p) ==
    /\ mq_producers[p].pc = "cas"
    /\ \/ /\ mq.head_ = mq_producers[p].head
          /\ mq' = [mq EXCEPT !.head_ = @ + 1]
          /\ mq_producers' = [mq_producers EXCEPT ![p] = [@ EXCEPT !.pc = "write"]]
       \/ /\ mq' = mq
          /\ mq_producers' = [mq_producers EXCEPT ![p] =
                 [@ EXCEPT !.pc = "turn", !.head = mq.head_]]
    /\ UNCHANGED <<outside_mpsc, mq_consumer, mq_history>>

\* push, line 174: new (&slot.data) T(item).
MPSCPushWrite(p) ==
    /\ mq_producers[p].pc = "write"
    /\ mq' = [mq EXCEPT !.slots_[mpsc_slot(mq_producers[p].head)].data =
                            mq_producers[p].item]
    /\ mq_producers' = [mq_producers EXCEPT ![p] = [@ EXCEPT !.pc = "publish"]]
    /\ UNCHANGED <<outside_mpsc, mq_consumer, mq_history>>

\* push, lines 175-176: slot.turn.store(head + 1, release); return true.
MPSCPushPublish(p) ==
    /\ mq_producers[p].pc = "publish"
    /\ mq' = [mq EXCEPT !.slots_[mpsc_slot(mq_producers[p].head)].turn =
                            mq_producers[p].head + 1]
    /\ mq_producers' = [mq_producers EXCEPT ![p] =
           [@ EXCEPT !.pc = "idle", !.ret = "true"]]
    /\ mq_history' = [mq_history EXCEPT !.pushed[p] = Append(@, mq_producers[p].item)]
    /\ UNCHANGED <<outside_mpsc, mq_consumer>>

\* A faulty variant of mpsc_pop_ready: any turn from tail_ on passes, so a
\* free slot is read.
mpsc_pop_ready_inclusive == mq.slots_[mpsc_slot(mq.tail_)].turn >= mq.tail_

\* pop, line 195: whether pop finds the slot at tail_ published.
mpsc_pop_ready == mq.slots_[mpsc_slot(mq.tail_)].turn = mq.tail_ + 1

\* pop, lines 192-197: load the turn of the slot at tail_; return false
\* unless it is tail_ + 1.
MPSCPopTurn ==
    /\ mq_consumer.pc = "idle"
    /\ mq_consumer' =
         IF mpsc_pop_ready
         THEN [mq_consumer EXCEPT !.pc = "read", !.ret = "none",
                                  !.seen = mpsc_held, !.pending = mpsc_tail_pending]
         ELSE [mq_consumer EXCEPT !.ret = "false",
                                  !.seen = mpsc_held, !.pending = mpsc_tail_pending]
    /\ UNCHANGED <<outside_mpsc, mq, mq_producers, mq_history>>

\* pop, lines 199-200: item = std::move(slot.data); slot.data.~T().
MPSCPopRead ==
    /\ mq_consumer.pc = "read"
    /\ mq_consumer' = [mq_consumer EXCEPT !.pc = "release",
                                          !.item = mq.slots_[mpsc_slot(mq.tail_)].data]
    /\ UNCHANGED <<outside_mpsc, mq, mq_producers, mq_history>>

\* pop, lines 201-203: slot.turn.store(tail_ + capacity_, release); ++tail_;
\* return true.
MPSCPopRelease ==
    /\ mq_consumer.pc = "release"
    /\ mq' = [mq EXCEPT !.slots_[mpsc_slot(mq.tail_)].turn = mq.tail_ + mq.capacity_,
                        !.tail_ = @ + 1]
    /\ mq_consumer' = [mq_consumer EXCEPT !.pc = "idle", !.ret = "true"]
    /\ mq_history' = [mq_history EXCEPT !.popped = Append(@, mq_consumer.item)]
    /\ UNCHANGED <<outside_mpsc, mq_producers>>

MPSCNext ==
    \/ \E p \in Producers : MPSCPushBegin(p)
    \/ \E p \in Producers : MPSCPushTurn(p)
    \/ \E p \in Producers : MPSCPushReload(p)
    \/ \E p \in Producers : MPSCPushCas(p)
    \/ \E p \in Producers : MPSCPushWrite(p)
    \/ \E p \in Producers : MPSCPushPublish(p)
    \/ MPSCPopTurn
    \/ MPSCPopRead
    \/ MPSCPopRelease

SpecMPSC == MPSCInit /\ [][MPSCNext]_vars

(***************************************************************************)
(* Claims about the MPSC queue.                                            *)
(***************************************************************************)
\* The items of producer p among the popped ones, in pop order.
popped_of(p) == SelectSeq(mq_history.popped, LAMBDA it : it[1] = p)

\* No thread is inside push or pop.
mpsc_quiescent ==
    /\ \A p \in Producers : mq_producers[p].pc = "idle"
    /\ mq_consumer.pc = "idle"

\* C9: for any MPSCQueue and any interleaving of its producers and its
\* consumer, pop returns only items whose push returned true and returns
\* none twice; the items of one producer are popped in the order it pushed
\* them; and no accepted item is lost or overwritten: whenever no thread is
\* inside a call and a pop would return false, every accepted item has been
\* popped.
C9_MPSCExactlyOnce ==
    /\ \A i \in 1..Len(mq_history.popped) : \A j \in 1..Len(mq_history.popped) :
           mq_history.popped[i] = mq_history.popped[j] => i = j
    /\ \A i \in 1..Len(mq_history.popped) : mq_history.popped[i] \in mpsc_accepted
    /\ \A p \in Producers : IsPrefix(popped_of(p), mq_history.pushed[p])
    /\ (mpsc_quiescent /\ ~mpsc_pop_ready) =>
           \A it \in mpsc_accepted :
               \E i \in 1..Len(mq_history.popped) : mq_history.popped[i] = it

\* A producer outside push whose last call returned r.
mpsc_returned(p, r) == mq_producers[p].pc = "idle" /\ mq_producers[p].ret = r

\* The consumer outside pop whose last call returned r.
mpsc_pop_returned(r) == mq_consumer.pc = "idle" /\ mq_consumer.ret = r

PoolInit ==
    /\ Unused({"pool"})
    /\ pool = NewPool
    /\ pool_threads = [t \in PoolThreadIds |-> IdlePoolThread]
    /\ pool_active \in {{1}, PoolThreadIds}

\* create, line 157 -> allocate -> pop_free, line 107: node = free_head_.load().
PoolCreate(t) ==
    /\ t \in pool_active
    /\ pool_threads[t].pc = "idle"
    /\ pool_threads[t].creates < MaxCreates
    /\ pool_threads' = [pool_threads EXCEPT ![t] =
           [@ EXCEPT !.pc = "pop_test", !.node = pool.free_head_, !.creates = @ + 1]]
    /\ UNCHANGED <<outside_pool, pool, pool_active>>

\* pop_free, lines 108-110: while (node), then the read of node->next for the
\* CAS.  Following a pointer that is no block is undefined.
PoolPopTest(t) ==
    /\ pool_threads[t].pc = "pop_test"
    /\ LET node == pool_threads[t].node
       IN  pool_threads' = [pool_threads EXCEPT ![t] =
               IF node = Null THEN [@ EXCEPT !.pc = "fallback"]
               ELSE IF node = Garbage THEN [@ EXCEPT !.pc = "undefined"]
               ELSE [@ EXCEPT !.pc = "pop_cas", !.link = pool.next[node]]]
    /\ UNCHANGED <<outside_pool, pool, pool_active>>

\* pop_free, lines 109-113: compare_exchange_weak(node, node->next).  On
\* success the block is returned; on failure (head moved, or spuriously) node
\* holds the current head and the loop goes round.
PoolPopCas(t) ==
    /\ pool_threads[t].pc = "pop_cas"
    /\ \/ /\ pool.free_head_ = pool_threads[t].node
          /\ pool' = [pool EXCEPT !.free_head_ = pool_threads[t].link]
          /\ pool_threads' = [pool_threads EXCEPT ![t] = [@ EXCEPT !.pc = "construct"]]
       \/ /\ pool' = pool
          /\ pool_threads' = [pool_threads EXCEPT ![t] =
                 [@ EXCEPT !.pc = "pop_test", !.node = pool.free_head_]]
    /\ UNCHANGED <<outside_pool, pool_active>>

\* create, lines 158-162: the pool is exhausted, take a block from the heap.
PoolFallback(t) ==
    /\ pool_threads[t].pc = "fallback"
    /\ pool' = [pool EXCEPT !.heap = @ + 1, !.fallback_count_ = @ + 1]
    /\ pool_threads' = [pool_threads EXCEPT ![t] =
           [@ EXCEPT !.pc = "construct", !.node = PoolSize + pool.heap + 1]]
    /\ UNCHANGED <<outside_pool, pool_active>>

\* create, line 163: new (mem) T(...): the object now lives in the block and
\* its bytes replace the block's first word.
PoolConstruct(t) ==
    /\ pool_threads[t].pc = "construct"
    /\ LET mem == pool_threads[t].node
       IN  /\ pool' = [pool EXCEPT !.live[mem] = @ + 1, !.next[mem] = Garbage]
           /\ pool_threads' = [pool_threads EXCEPT ![t] =
                  [@ EXCEPT !.pc = "idle", !.held = @ \cup {mem}]]
    /\ UNCHANGED <<outside_pool, pool_active>>

\* destroy, lines 170-177, into push_free, lines 96-97: the destructor runs,
\* node = obj, old_head = free_head_.load().
PoolDestroy(t) ==
    /\ pool_threads[t].pc = "idle"
    /\ \E obj \in pool_threads[t].held :
          /\ pool' = [pool EXCEPT !.live[obj] = @ - 1]
          /\ pool_threads' = [pool_threads EXCEPT ![t] =
                 [@ EXCEPT !.pc = "push_link", !.node = obj,
                           !.link = pool.free_head_, !.held = @ \ {obj}]]
    /\ UNCHANGED <<outside_pool, pool_active>>

\* push_free, line 99: node->next = old_head.
PoolPushLink(t) ==
    /\ pool_threads[t].pc = "push_link"
    /\ pool' = [pool EXCEPT !.next[pool_threads[t].node] = pool_threads[t].link]
    /\ pool_threads' = [pool_threads EXCEPT ![t] = [@ EXCEPT !.pc = "push_cas"]]
    /\ UNCHANGED <<outside_pool, pool_active>>

\* push_free, lines 100-103: compare_exchange_weak(old_head, node); a failure
\* reloads old_head and links again.
PoolPushCas(t) ==
    /\ pool_threads[t].pc = "push_cas"
    /\ \/ /\ pool.free_head_ = pool_threads[t].link
          /\ pool' = [pool EXCEPT !.free_head_ = pool_threads[t].node]
          /\ pool_threads' = [pool_threads EXCEPT ![t] = [@ EXCEPT !.pc = "idle"]]
       \/ /\ pool' = pool
          /\ pool_threads' = [pool_threads EXCEPT ![t] =
                 [@ EXCEPT !.pc = "push_link", !.link = pool.free_head_]]
    /\ UNCHANGED <<outside_pool, pool_active>>

PoolNext ==
    \/ \E t \in PoolThreadIds : PoolCreate(t)
    \/ \E t \in PoolThreadIds : PoolPopTest(t)
    \/ \E t \in PoolThreadIds : PoolPopCas(t)
    \/ \E t \in PoolThreadIds : PoolFallback(t)
    \/ \E t \in PoolThreadIds : PoolConstruct(t)
    \/ \E t \in PoolThreadIds : PoolDestroy(t)
    \/ \E t \in PoolThreadIds : PoolPushLink(t)
    \/ \E t \in PoolThreadIds : PoolPushCas(t)

SpecPool == PoolInit /\ [][PoolNext]_vars

\* FixedMemoryPool::available_approx: the nodes met walking the free list,
\* for at most `fuel` of them.
RECURSIVE available_approx(_, _)
available_approx(node, fuel) ==
    IF node = Null \/ node = Garbage \/ fuel = 0
    THEN 0
    ELSE 1 + available_approx(pool.next[node], fuel - 1)

\* ObjectPool::available()
available == available_approx(pool.free_head_, PoolSize + PoolThreads * MaxCreates + 1)

(***************************************************************************)
(* Claims about the object pool.                                           *)
(***************************************************************************)
\* No thread is inside create or destroy and no object is outstanding.
PoolAtRest ==
    \A t \in PoolThreadIds :
        pool_threads[t].pc = "idle" /\ pool_threads[t].held = {}

\* C12: for any sequence of create and destroy calls of one thread in which
\* every created object is destroyed exactly once, whenever no object is
\* outstanding the number of available blocks equals PoolSize, also after
\* more than PoolSize objects were outstanding at the same time.
C12_AvailableRestored ==
    (pool_active = {1} /\ PoolAtRest) => available = PoolSize

\* The blocks a thread holds between pop_free's CAS and the construction, or
\* between the destructor and push_free's CAS.
InTransit(t) ==
    IF pool_threads[t].pc \in {"construct", "push_link", "push_cas"}
    THEN {pool_threads[t].node}
    ELSE {}

\* Block b is on the free list, within `fuel` nodes of `node`.
RECURSIVE OnFreeList(_, _, _)
OnFreeList(b, node, fuel) ==
    IF node = Null \/ node = Garbage \/ fuel = 0
    THEN FALSE
    ELSE node = b \/ OnFreeList(b, pool.next[node], fuel - 1)

\* C13: for any interleaving of create and destroy calls of several threads,
\* no block is owned by two live objects, and every block of the pool is in
\* exactly one place: on the free list once, or with one thread (as a live
\* object, or in transit inside create or destroy).
C13_NoDoubleOwnership ==
    /\ \A b \in PoolBlocks \cup HeapBlocks : pool.live[b] <= 1
    /\ pool.free_head_ # Garbage
    /\ \A t \in PoolThreadIds : pool_threads[t].pc # "undefined"
    /\ available <= PoolSize + pool.heap
    /\ \A b \in PoolBlocks :
          LET free == OnFreeList(b, pool.free_head_, PoolSize + PoolThreads * MaxCreates + 1)
              owners == {t \in PoolThreadIds :
                            b \in pool_threads[t].held \cup InTransit(t)}
          IN  /\ free => owners = {}
              /\ ~free => Cardinality(owners) = 1

(***************************************************************************)
(* SpecWs: one WebSocketClientBase session.  Every completion handler runs *)
(* on the io_context, one at a time; each is one action.  The environment  *)
(* decides whether an operation completes with or without an error, when   *)
(* the connection is lost and when a timer expires.                        *)
(***************************************************************************)
Min(a, b) == IF a < b THEN a ELSE b

\* A faulty variant of shift_left_one: the shift taken before the counter is incremented.
shift_left_one_before_increment(n) == IF n < 31 THEN {2 ^ (n - 1)} ELSE {0}

\* The values `1 << n` can take in a 32-bit int.  For n >= 31 the shift is
\* undefined: the result may be the wrapped bit pattern of a shift by n mod 32
\* (INT_MIN at 31) or zero.
shift_left_one(n) ==
    IF n < 31 THEN {2 ^ n}
    ELSE {IF n % 32 = 31 THEN (0 - (2 ^ 30)) - (2 ^ 30) ELSE 2 ^ (n % 32), 0}

\* schedule_reconnect's delay_seconds once reconnect_count_ has been incremented to n.
delay_seconds(n) == {Min(60, x) : x \in shift_left_one(n)}

\* emit_event, as the observer of the event stream sees it.
emit_event(obs, type) ==
    [obs EXCEPT !.event = type,
                !.announced = IF type = "Connected" THEN obs.conn ELSE @]

\* send_message(msg): the write is posted to the executor, stamped with the connection.
send_message(io, obs, kind, arg) ==
    [io EXCEPT !.posted = Append(@, <<kind, arg, obs.conn>>)]

\* schedule_reconnect with the delay the shift produced.
schedule_reconnect(st, d) ==
    [ws  |-> [st.ws EXCEPT !.reconnect_count_ = @ + 1],
     io  |-> [st.io EXCEPT !.reconnect_timer = TRUE],
     obs |-> [st.obs EXCEPT !.delay = d]]

\* fail(ec, what): not connected, an Error event, and a reconnect if wanted.
fail(st, d) ==
    LET down == [ws  |-> [st.ws EXCEPT !.connected_ = FALSE],
                 io  |-> st.io,
                 obs |-> emit_event(st.obs, "Error")]
    IN  IF st.ws.should_reconnect_ THEN schedule_reconnect(down, d) ELSE down

\* do_write: start writing the front of write_queue_ unless a write is marked in progress.
do_write(st) ==
    IF st.ws.write_queue_ = <<>> \/ st.ws.writing_ THEN st
    ELSE [ws  |-> [st.ws EXCEPT !.writing_ = TRUE],
          io  |-> [st.io EXCEPT !.write = TRUE],
          obs |-> [st.obs EXCEPT !.written = Append(@, Head(st.ws.write_queue_))]]

\* MEXCWebSocket::send_delayed_subscriptions: at most one SUBSCRIPTION, for the
\* next order book symbol, else the next ticker symbol, else the next trade symbol.
send_delayed_subscriptions(st) ==
    LET w == st.ws
        sub == IF ~w.orderbook_done_ /\ w.orderbook_idx_ < w.orderbook_symbols_
                   THEN <<"depth", w.orderbook_idx_>>
               ELSE IF ~w.ticker_done_ /\ w.ticker_idx_ < w.ticker_symbols_
                   THEN <<"miniTicker", w.ticker_idx_>>
               ELSE IF ~w.trade_done_ /\ w.trade_idx_ < w.trade_symbols_
                   THEN <<"deals", w.trade_idx_>>
               ELSE <<>>
        w1 == IF sub = <<>> THEN w
              ELSE IF sub[1] = "depth"
                  THEN [w EXCEPT !.orderbook_idx_ = @ + 1,
                                 !.orderbook_done_ = (w.orderbook_idx_ + 1 >= w.orderbook_symbols_),
                                 !.subscribe_id_ = @ + 1]
              ELSE IF sub[1] = "miniTicker"
                  THEN [w EXCEPT !.ticker_idx_ = @ + 1,
                                 !.ticker_done_ = (w.ticker_idx_ + 1 >= w.ticker_symbols_),
                                 !.subscribe_id_ = @ + 1]
              ELSE [w EXCEPT !.trade_idx_ = @ + 1,
                             !.trade_done_ = (w.trade_idx_ + 1 >= w.trade_symbols_),
                             !.subscribe_id_ = @ + 1]
    IN  IF sub = <<>> THEN st
        ELSE [ws  |-> w1,
              io  |-> send_message(st.io, st.obs, "SUBSCRIPTION", sub),
              obs |-> [st.obs EXCEPT
                          !.early = @ \/ (st.obs.last_sub # <<>> /\ st.obs.last_sub \notin st.obs.acked),
                          !.last_sub = sub]]

\* MEXCWebSocket::on_connected: the indices start over, the first SUBSCRIPTION goes out.
mexc_on_connected(st) ==
    send_delayed_subscriptions(
        [st EXCEPT !.ws = [st.ws EXCEPT !.orderbook_idx_ = 0, !.ticker_idx_ = 0,
                                        !.trade_idx_ = 0, !.orderbook_done_ = FALSE,
                                        !.ticker_done_ = FALSE, !.trade_done_ = FALSE]])

\* parse_message of a text frame.  MEXC: a frame with "code" and "msg" sends the
\* next SUBSCRIPTION, a frame with "ping" is answered with a pong.
parse_message(st, frame) ==
    IF st.ws.exchange_ # "MEXC" THEN st
    ELSE IF frame[1] \in {"ack", "PONG"} THEN send_delayed_subscriptions(st)
    ELSE IF frame[1] = "ping" THEN [st EXCEPT !.io = send_message(st.io, st.obs, "pong", <<>>)]
    ELSE st

\* What the server sends back for a message it has received.
server_reply(msg) ==
    IF msg[1] = "SUBSCRIPTION" THEN <<<<"ack", msg[2]>>>>
    ELSE IF msg[1] = "PING" THEN <<<<"PONG", <<>>>>>>
    ELSE IF msg[1] = "subscribe" THEN <<<<"data", <<>>>>>>
    ELSE <<>>

\* The session, its operations and its observer as one value, and back.
WsState == [ws |-> ws, io |-> ws_io, obs |-> ws_obs]

WsBecomes(st) ==
    /\ ws' = st.ws
    /\ ws_io' = st.io
    /\ ws_obs' = st.obs
    /\ UNCHANGED outside_ws

\* Room for one more message between the executor and the socket.
WsRoom == Len(ws_io.posted) + Len(ws.write_queue_) < MaxWriteQueue

\* Room for one more fail() that schedules a reconnect.
WsMayFail ==
    ws.reconnect_count_ < (IF ws.exchange_ = "MEXC" THEN MaxMexcReconnects ELSE MaxReconnects)

\* Room for one more successful handshake.
WsMayConnect ==
    ws_obs.conn < (IF ws.exchange_ = "MEXC" THEN MaxMexcConnections ELSE MaxConnections)

\* A session of a venue with a subscribe payload.
WsInit ==
    /\ Unused({"ws"})
    /\ ws = NewSession("Upbit", 0, 0, 0)
    /\ ws_io = NoIo
    /\ ws_obs = NoObs

\* A MEXC session with any subscription lists.
MexcInit ==
    /\ Unused({"ws"})
    /\ \E orderbook \in 0..MaxSymbols, ticker \in 0..MaxSymbols, trade \in 0..MaxSymbols :
          ws = NewSession("MEXC", orderbook, ticker, trade)
    /\ ws_io = NoIo
    /\ ws_obs = NoObs

\* connect(host, port, target), called by the owner once: name resolution starts.
WsConnect ==
    /\ ws_io.attempt = "none"
    /\ ws_obs.conn = 0
    /\ ws_obs.failures = 0
    /\ ~ws_obs.disconnected
    /\ WsBecomes([WsState EXCEPT !.ws.connected_ = FALSE, !.io.attempt = "resolve"])

\* on_resolve, on_connect and on_ssl_handshake: an error goes to fail, success
\* starts the next stage of the attempt.
WsOnStage(i, ok) ==
    /\ i \in 1..3
    /\ ws_io.attempt = WsStages[i]
    /\ IF ok
       THEN WsBecomes([WsState EXCEPT !.io.attempt = WsStages[i + 1]])
       ELSE /\ WsMayFail
            /\ \E d \in delay_seconds(ws.reconnect_count_ + 1) :
                  WsBecomes(fail([WsState EXCEPT !.io.attempt = "none",
                                                 !.obs.failures = @ + 1], d))

\* on_handshake with an error.
WsOnHandshakeError ==
    /\ ws_io.attempt = "handshake"
    /\ WsMayFail
    /\ \E d \in delay_seconds(ws.reconnect_count_ + 1) :
          WsBecomes(fail([WsState EXCEPT !.io.attempt = "none",
                                         !.obs.failures = @ + 1], d))

\* on_handshake without error: connected, counter reset, Connected event, the
\* subscribe payload if there is one, on_connected, first read, ping timer.
WsOnHandshake ==
    /\ ws_io.attempt = "handshake"
    /\ WsMayConnect
    /\ WsRoom
    /\ LET up == [ws  |-> [ws EXCEPT !.connected_ = TRUE, !.reconnect_count_ = 0,
                                     !.is_open = TRUE],
                  io  |-> [ws_io EXCEPT !.attempt = "none", !.link = "up", !.inbox = <<>>],
                  obs |-> emit_event([ws_obs EXCEPT !.conn = @ + 1, !.written = <<>>, !.pings = 0,
                                                    !.failures = 0, !.last_sub = <<>>,
                                                    !.acked = {}], "Connected")]
           subscribed == IF ws.exchange_ = "MEXC" THEN mexc_on_connected(up)
                         ELSE [up EXCEPT !.io = send_message(up.io, up.obs, "subscribe", <<>>)]
       IN  WsBecomes([subscribed EXCEPT !.io.read = TRUE, !.io.ping_timer = TRUE])

\* The lambda send_message posted: queue the message, and write unless the
\* queue already held one.
WsSendTask ==
    /\ ws_io.posted # <<>>
    /\ LET msg == Head(ws_io.posted)
           write_in_progress == ws.write_queue_ # <<>>
           queued == [WsState EXCEPT !.io.posted = Tail(@),
                                     !.ws.write_queue_ = Append(@, msg)]
       IN  WsBecomes(IF write_in_progress THEN queued ELSE do_write(queued))

\* on_write without error: the message leaves the queue and the next write starts.
WsOnWrite ==
    /\ ws_io.write
    /\ ws_io.link = "up"
    /\ LET msg == Head(ws.write_queue_)
           done == [WsState EXCEPT !.io.write = FALSE,
                                   !.io.inbox = @ \o server_reply(msg),
                                   !.obs.acked = IF msg[1] = "SUBSCRIPTION"
                                                     THEN @ \cup {msg[2]} ELSE @,
                                   !.ws.write_queue_ = Tail(@),
                                   !.ws.writing_ = FALSE]
       IN  WsBecomes(do_write(done))

\* on_write with an error: straight to fail.
WsOnWriteError ==
    /\ ws_io.write
    /\ ws_io.link # "up"
    /\ WsMayFail
    /\ \E d \in delay_seconds(ws.reconnect_count_ + 1) :
          WsBecomes(fail([WsState EXCEPT !.io.write = FALSE, !.ws.is_open = FALSE], d))

\* on_read without error: the frame is parsed and the next read starts.
WsOnRead ==
    /\ ws_io.read
    /\ ws_io.link = "up"
    /\ ws_io.inbox # <<>>
    /\ ws.is_open
    /\ LET frame == Head(ws_io.inbox)
       IN  /\ (frame[1] # "data") => WsRoom
           /\ WsBecomes(parse_message([WsState EXCEPT !.io.inbox = Tail(@)], frame))

\* on_read with an error: fail, and no further read.
WsOnReadError ==
    /\ ws_io.read
    /\ ws_io.link # "up"
    /\ WsMayFail
    /\ \E d \in delay_seconds(ws.reconnect_count_ + 1) :
          WsBecomes(fail([WsState EXCEPT !.io.read = FALSE, !.ws.is_open = FALSE], d))

\* The connection is lost: every outstanding read and write will complete with an error.
WsLinkLost ==
    /\ ws_io.link = "up"
    /\ ~ws_io.close
    /\ WsBecomes([WsState EXCEPT !.io.link = "lost", !.io.inbox = <<>>,
                                 !.obs.failures = @ + 1])

\* on_ping_timer without error: nothing if the stream is not open, else a ping
\* (MEXC: a PING message through send_message) and the timer is armed again.
WsOnPingTimer ==
    /\ ws_io.ping_timer
    /\ LET seen == [WsState EXCEPT !.obs.late_expiry = @ \/ ws_obs.disconnected]
       IN  IF ~ws.is_open
           THEN WsBecomes([seen EXCEPT !.io.ping_timer = FALSE])
           ELSE IF ws.exchange_ = "MEXC"
                THEN /\ WsRoom
                     /\ ws_obs.pings < MaxPings
                     /\ WsBecomes([seen EXCEPT !.io = send_message(ws_io, ws_obs, "PING", <<>>),
                                               !.obs.pings = @ + 1])
                ELSE WsBecomes(seen)

\* on_reconnect_timer without error: connect again unless reconnecting is off.
\* The timer runs for at least a second, so every completion of the broken
\* connection has been delivered by then.
WsOnReconnectTimer ==
    /\ ws_io.reconnect_timer
    /\ ws_io.posted = <<>>
    /\ ~ws_io.read
    /\ ~ws_io.write
    /\ LET seen == [WsState EXCEPT !.io.reconnect_timer = FALSE,
                                   !.obs.late_expiry = @ \/ ws_obs.disconnected]
       IN  IF ~ws.should_reconnect_
           THEN WsBecomes(seen)
           ELSE WsBecomes([seen EXCEPT !.ws.connected_ = FALSE,
                                       !.io.attempt = "resolve",
                                       !.obs.late_attempts = @ + (IF ws_obs.disconnected THEN 1 ELSE 0)])

\* disconnect(): reconnecting is switched off; an open stream starts its close.
WsDisconnect ==
    /\ ~ws_obs.disconnected
    /\ ws_obs.conn + ws_obs.failures > 0 \/ ws_io.attempt # "none"
    /\ LET off == [WsState EXCEPT !.ws.should_reconnect_ = FALSE,
                                  !.obs.disconnected = TRUE]
       IN  IF ~ws.is_open
           THEN WsBecomes(off)
           ELSE WsBecomes([off EXCEPT !.io.close = TRUE, !.ws.is_open = FALSE])

\* on_close: not connected, a Disconnected event.  The peer has closed too, so
\* the outstanding read and write complete with an error.
WsOnClose ==
    /\ ws_io.close
    /\ WsBecomes([WsState EXCEPT !.io.close = FALSE, !.io.link = "lost", !.io.inbox = <<>>,
                                 !.ws.connected_ = FALSE,
                                 !.obs = emit_event(@, "Disconnected")])

WsNext ==
    \/ WsConnect
    \/ \E i \in 1..3, ok \in BOOLEAN : WsOnStage(i, ok)
    \/ WsOnHandshakeError
    \/ WsOnHandshake
    \/ WsSendTask
    \/ WsOnWrite
    \/ WsOnWriteError
    \/ WsOnRead
    \/ WsOnReadError
    \/ WsLinkLost
    \/ WsOnPingTimer
    \/ WsOnReconnectTimer
    \/ WsDisconnect
    \/ WsOnClose

SpecWs == WsInit /\ [][WsNext]_vars

SpecMexc == MexcInit /\ [][WsNext]_vars

(***************************************************************************)
(* Claims about the reconnect back-off.                                    *)
(***************************************************************************)
\* min(60, 2^n) seconds.
backoff_claimed(n) == IF n >= 6 THEN 60 ELSE 2 ^ n

\* C14: while a reconnect is scheduled after n consecutive failures (failed
\* connection attempts or lost connections since the last successful
\* handshake), its delay is min(60, 2^n) seconds.
C14_BackoffDelay ==
    ws_io.reconnect_timer => ws_obs.delay = backoff_claimed(ws_obs.failures)

\* The first fail() after a successful handshake schedules a reconnect in d seconds.
first_failure_delay(d) ==
    (ws.connected_ /\ ~ws_io.reconnect_timer /\ ws_io'.reconnect_timer) => ws_obs'.delay = d

\* C15 as stated: a successful handshake resets the counter, and the first
\* failure after it is followed by a reconnect delay of 1 second.
C15_DelayAfterSuccessAsClaimed ==
    [](ws.connected_ => ws.reconnect_count_ = 0) /\ [][first_failure_delay(1)]_vars

\* C15: a successful handshake resets reconnect_count_ to 0, and the first
\* fail() after it schedules the reconnect with a delay of 2 seconds.
C15_DelayAfterSuccess ==
    [](ws.connected_ => ws.reconnect_count_ = 0) /\ [][first_failure_delay(2)]_vars

\* A reconnection succeeded after failures, was lost, and the reconnect is scheduled.
C15_Witness ==
    /\ ws_obs.conn = 2
    /\ ws_obs.failures = 1
    /\ ws_io.reconnect_timer
    /\ ws.reconnect_count_ = 1
    /\ ws_obs.delay = 2

(***************************************************************************)
(* Claims about disconnect and about the subscribe payload.                *)
(***************************************************************************)
\* C16: once disconnect() has been called, no ping or reconnect timer wait is
\* pending any more, and no timer expiry or I/O error starts a connection attempt.
C16_DisconnectCancelsTimers ==
    ws_obs.disconnected =>
        /\ ~ws_io.ping_timer
        /\ ~ws_io.reconnect_timer
        /\ ~ws_obs.late_expiry
        /\ ws_obs.late_attempts = 0

\* The subscribe payload of the current connection has been handed to the socket.
subscribe_written ==
    \E i \in 1..Len(ws_obs.written) : ws_obs.written[i] = <<"subscribe", <<>>, ws_obs.conn>>

\* C17: on every connection, the first and every later one, once the handshake
\* handler and the write it posted have run, a Connected event has been emitted
\* for this connection and the subscribe payload has been written to it.
C17_SubscribeAfterHandshake ==
    (ws.connected_ /\ ws_io.link = "up" /\ ws_io.posted = <<>>) =>
        (ws_obs.announced = ws_obs.conn /\ subscribe_written)

(***************************************************************************)
(* Claims about the MEXC subscriptions.                                    *)
(***************************************************************************)
\* C18: on a MEXC connection a SUBSCRIPTION is passed to send_message only when
\* the server has answered the SUBSCRIPTION sent before it on that connection.
C18_SubscriptionsSequential == ~ws_obs.early

(***************************************************************************)
(* SpecPremium: PremiumCalculator driven by one writer.  Each public call  *)
(* is one action; update_price and update_fx_rate include recalculate and  *)
(* the callbacks it makes.                                                 *)
(***************************************************************************)
\* Prices the venues quote: KRW venues around 100, USDT venues 2, 0 for none,
\* and one negative value.
KrwPrices == {0 - 100, 0} \cup {100 + 2 * k : k \in 0..MaxPriceSteps}

UsdtPrices == {0, 2}

\* FX rates that bring 2 USDT to the KRW quotes, and 0.
FxRates == {0} \cup {50 + k : k \in 0..MaxPriceSteps}

Thresholds == {0, 2}

to_krw(ex, price, fx) == IF is_krw_exchange(ex) THEN price ELSE price * fx

\* A faulty variant of calc_premium: no test of buy_krw.
calc_premium_unguarded(buy_krw, sell_krw) == <<(sell_krw - buy_krw) * 100, buy_krw>>

calc_premium(buy_krw, sell_krw) ==
    IF buy_krw <= 0 THEN NaN ELSE <<(sell_krw - buy_krw) * 100, buy_krw>>

\* A faulty variant of reaches_threshold: strictly above.
exceeds_threshold(prem, threshold) ==
    prem # NaN /\ prem[1] > threshold * prem[2]

\* !std::isnan(prem) && prem >= threshold_
reaches_threshold(prem, threshold) ==
    prem # NaN /\ prem[1] >= threshold * prem[2]

\* recalculate's first loop: the matrix from the prices and the FX rate.
recalculate_matrix(calc) ==
    [c \in Cells |->
        IF c[1] = c[2] THEN Zero
        ELSE IF calc.prices_[c[1]] <= 0 \/ calc.prices_[c[2]] <= 0 THEN NaN
        ELSE calc_premium(to_krw(c[1], calc.prices_[c[1]], calc.fx_rate_),
                          to_krw(c[2], calc.prices_[c[2]], calc.fx_rate_))]

\* The off-diagonal cells in the order of recalculate's second loop.
CallbackOrder ==
    SelectSeq([i \in 1..16 |-> <<ExchangeOrder[((i - 1) \div 4) + 1], ExchangeOrder[((i - 1) % 4) + 1]>>],
              LAMBDA c : c[1] # c[2])

\* recalculate's second loop: the cells the callback is invoked for, in order.
recalculate_calls(calc, matrix) ==
    IF ~calc.callback_ THEN <<>>
    ELSE SelectSeq(CallbackOrder, LAMBDA c : reaches_threshold(matrix[c], calc.threshold_))

\* recalculate on the calculator with its inputs already stored.
Recalculate(calc) ==
    LET matrix == recalculate_matrix(calc)
    IN  /\ premium' = [calc EXCEPT !.matrix_ = matrix]
        /\ premium_obs' = [updated   |-> TRUE,
                           evaluated |-> TRUE,
                           previous  |-> premium.matrix_,
                           calls     |-> recalculate_calls(calc, matrix)]
        /\ UNCHANGED <<outside_premium, premium_threads>>

PremiumInit ==
    /\ Unused({"premium"})
    /\ premium = NewCalculator
    /\ premium_obs = NoPremiumObs
    /\ premium_threads = NoPremiumThreads

\* update_price(ex, price)
PremiumUpdatePrice(ex, price) ==
    /\ price \in (IF is_krw_exchange(ex) THEN KrwPrices ELSE UsdtPrices)
    /\ Recalculate([premium EXCEPT !.prices_[ex] = price])

\* update_fx_rate(rate)
PremiumUpdateFx(rate) ==
    Recalculate([premium EXCEPT !.fx_rate_ = rate])

\* on_premium_changed(cb)
PremiumOnPremiumChanged ==
    /\ ~premium.callback_
    /\ premium' = [premium EXCEPT !.callback_ = TRUE]
    /\ premium_obs' = [premium_obs EXCEPT !.evaluated = FALSE, !.calls = <<>>]
    /\ UNCHANGED <<outside_premium, premium_threads>>

\* set_threshold(threshold_pct)
PremiumSetThreshold(threshold) ==
    /\ threshold # premium.threshold_
    /\ premium' = [premium EXCEPT !.threshold_ = threshold]
    /\ premium_obs' = [premium_obs EXCEPT !.evaluated = FALSE, !.calls = <<>>]
    /\ UNCHANGED <<outside_premium, premium_threads>>

PremiumNext ==
    \/ \E ex \in Exchanges, price \in KrwPrices \cup UsdtPrices : PremiumUpdatePrice(ex, price)
    \/ \E rate \in FxRates : PremiumUpdateFx(rate)
    \/ PremiumOnPremiumChanged
    \/ \E threshold \in Thresholds : PremiumSetThreshold(threshold)

SpecPremium == PremiumInit /\ [][PremiumNext]_vars

(***************************************************************************)
(* Claims about the premium matrix and its callback.                       *)
(***************************************************************************)
OffDiagonal == {c \in Cells : c[1] # c[2]}

\* How often the last recalculate invoked the callback for a cell.
callback_count(c) ==
    Cardinality({i \in 1..Len(premium_obs.calls) : premium_obs.calls[i] = c})

\* A cell value strictly above the threshold.
strictly_above(prem) == prem # NaN /\ prem[1] > premium.threshold_ * prem[2]

\* C19 as stated: the callback is invoked once for each cell that is strictly
\* above the threshold and was not at the previous evaluation, and not otherwise.
C19_CallbackOnCrossingAsClaimed ==
    (premium_obs.evaluated /\ premium.callback_) =>
        \A c \in OffDiagonal :
            callback_count(c) =
                IF strictly_above(premium.matrix_[c]) /\ ~strictly_above(premium_obs.previous[c])
                    THEN 1 ELSE 0

\* C19: at every evaluation with a callback set, the callback is invoked once
\* for each off-diagonal cell whose premium is a number at or above the
\* threshold, whatever the cell was at the previous evaluation, and for no other.
C19_CallbackAtOrAbove ==
    (premium_obs.evaluated /\ premium.callback_) =>
        \A c \in OffDiagonal :
            callback_count(c) =
                IF premium.matrix_[c] # NaN
                   /\ premium.matrix_[c][1] >= premium.threshold_ * premium.matrix_[c][2]
                    THEN 1 ELSE 0

\* An evaluation that called back for a cell equal to the threshold which was
\* already at the threshold at the evaluation before.
C19_Witness ==
    /\ premium_obs.evaluated
    /\ premium.callback_
    /\ premium.threshold_ = 2
    /\ premium.matrix_[<<"Upbit", "Bithumb">>] = <<200, 100>>
    /\ premium_obs.previous[<<"Upbit", "Bithumb">>] = <<200, 100>>
    /\ callback_count(<<"Upbit", "Bithumb">>) = 1

\* A venue's current price in KRW: USDT venues times the current FX rate.
price_krw(ex) ==
    IF ex \in {"Binance", "MEXC"} THEN premium.prices_[ex] * premium.fx_rate_
    ELSE premium.prices_[ex]

\* (sell_krw - buy_krw) / buy_krw * 100 for a cell.
premium_formula(c) == <<(price_krw(c[2]) - price_krw(c[1])) * 100, price_krw(c[1])>>

\* C20 as stated: in every state, from construction onward, each diagonal cell
\* is 0, each off-diagonal cell with a zero input price is NaN, and every other
\* cell is (sell_krw - buy_krw) / buy_krw * 100.
C20_MatrixFormulaAsClaimed ==
    \A c \in Cells :
        premium.matrix_[c] =
            IF c[1] = c[2] THEN Zero
            ELSE IF premium.prices_[c[1]] = 0 \/ premium.prices_[c[2]] = 0 THEN NaN
            ELSE premium_formula(c)

\* C20: until the first update every cell, the diagonal included, is NaN.
\* After any update each diagonal cell is 0, each off-diagonal cell whose buy
\* or sell price is not positive, or whose buy price in KRW is not positive
\* (FX rate 0), is NaN, and every other cell is (sell_krw - buy_krw) / buy_krw * 100.
C20_MatrixFormula ==
    \A c \in Cells :
        premium.matrix_[c] =
            IF ~premium_obs.updated THEN NaN
            ELSE IF c[1] = c[2] THEN Zero
            ELSE IF premium.prices_[c[1]] <= 0 \/ premium.prices_[c[2]] <= 0
                    \/ price_krw(c[1]) <= 0 THEN NaN
            ELSE premium_formula(c)

\* Binance at 2 USDT and FX 50 against Upbit at 104 KRW is a premium of 4 %,
\* while Bithumb has no price and the FX rate is not the constructor's.
C20_Witness ==
    /\ premium_obs.updated
    /\ premium.fx_rate_ = 50
    /\ premium.matrix_[<<"Binance", "Upbit">>] = <<400, 100>>
    /\ premium.matrix_[<<"Upbit", "Binance">>] = <<0 - 400, 104>>
    /\ premium.matrix_[<<"Bithumb", "Upbit">>] = NaN
    /\ premium.matrix_[<<"MEXC", "MEXC">>] = Zero

\* The cells that need an FX conversion: a USDT venue buys or sells.
NeedsFx == {c \in OffDiagonal : ~is_krw_exchange(c[1]) \/ ~is_krw_exchange(c[2])}

\* C21: while the FX rate is 0, every off-diagonal cell with a USDT venue on
\* the buy or the sell side is NaN and the callback is invoked for none of them.
C21_ZeroFxSuppresses ==
    (premium_obs.updated /\ premium.fx_rate_ = 0) =>
        \A c \in NeedsFx : premium.matrix_[c] = NaN /\ callback_count(c) = 0

(***************************************************************************)
(* SpecMatrix: PremiumCalculator used by several threads.  Writers call    *)
(* update_price or update_fx_rate once each, a reader calls get_matrix,    *)
(* and the callback calls get_matrix too.  The stores to prices_ and       *)
(* fx_rate_ are atomic and outside mutex_; recalculate holds mutex_ and    *)
(* loads the prices and the FX rate again for every cell.                  *)
(***************************************************************************)
\* All cells in the order of recalculate's first loop.
MatrixOrder ==
    [i \in 1..16 |-> <<ExchangeOrder[((i - 1) \div 4) + 1], ExchangeOrder[((i - 1) % 4) + 1]>>]

\* The input state of a calculator.
input_state(calc) == [prices_ |-> calc.prices_, fx_rate_ |-> calc.fx_rate_]

\* The matrix is the complete result of recalculate over one input state there has been.
of_one_input(matrix, inputs) ==
    \E in \in inputs :
        matrix = recalculate_matrix([NewCalculator EXCEPT !.prices_ = in.prices_,
                                                          !.fx_rate_ = in.fx_rate_])

\* get_matrix returns the current matrix_: what the observer of the results notes.
get_matrix(threads) ==
    [threads EXCEPT !.returned = TRUE,
                    !.mixed = @ \/ ~of_one_input(premium.matrix_, threads.inputs)]

\* A faulty variant of unlock_for_callback: mutex_ stays with the writer.
keep_lock_for_callback(w) == w

\* lock.unlock() before callback_(info): mutex_ is free during the callback.
unlock_for_callback(w) == 0

\* The first cell at or after position k of the callback loop that gets a callback, or 0.
next_callback(calc, k) ==
    LET hits == {j \in k..Len(CallbackOrder) :
                    calc.callback_ /\ reaches_threshold(calc.matrix_[CallbackOrder[j]], calc.threshold_)}
    IN  IF hits = {} THEN 0 ELSE CHOOSE j \in hits : \A i \in hits : j <= i

\* A calculator at rest after some updates, every venue priced.
MatrixInit ==
    /\ Unused({"premium"})
    /\ \E fx \in {50}, threshold \in Thresholds, cb \in BOOLEAN :
          LET calc == [NewCalculator EXCEPT
                          !.prices_ = [ex \in Exchanges |-> IF is_krw_exchange(ex) THEN 100 ELSE 2],
                          !.fx_rate_ = fx, !.threshold_ = threshold, !.callback_ = cb]
          IN  /\ premium = [calc EXCEPT !.matrix_ = recalculate_matrix(calc)]
              /\ premium_threads = [NoPremiumThreads EXCEPT !.inputs = {input_state(calc)}]
    /\ premium_obs = NoPremiumObs

\* update_price: prices_[ex].store(price), before recalculate takes the lock.
MatrixStorePrice(w, ex, price) ==
    /\ premium_threads.writers[w].pc = "idle"
    /\ price \in (IF is_krw_exchange(ex) THEN {q \in KrwPrices : q > 0} ELSE UsdtPrices)
    /\ premium' = [premium EXCEPT !.prices_[ex] = price]
    /\ premium_threads' = [premium_threads EXCEPT
                              !.writers[w].pc = "lock",
                              !.inputs = @ \cup {input_state(premium')}]
    /\ UNCHANGED <<outside_premium, premium_obs>>

\* update_fx_rate: fx_rate_.store(rate), before recalculate takes the lock.
MatrixStoreFx(w, rate) ==
    /\ premium_threads.writers[w].pc = "idle"
    /\ premium' = [premium EXCEPT !.fx_rate_ = rate]
    /\ premium_threads' = [premium_threads EXCEPT
                              !.writers[w].pc = "lock",
                              !.inputs = @ \cup {input_state(premium')}]
    /\ UNCHANGED <<outside_premium, premium_obs>>

\* recalculate: std::unique_lock lock(mutex_)
MatrixLock(w) ==
    /\ premium_threads.writers[w].pc = "lock"
    /\ premium_threads.mutex_ = 0
    /\ premium_threads' = [premium_threads EXCEPT
                              !.mutex_ = w,
                              !.writers[w] = [pc |-> "matrix", k |-> 1,
                                              recalculations |-> @.recalculations + 1]]
    /\ UNCHANGED <<outside_premium, premium, premium_obs>>

\* recalculate's first loop, one cell: the prices and the FX rate are loaded now.
MatrixCell(w) ==
    /\ premium_threads.writers[w].pc = "matrix"
    /\ LET k == premium_threads.writers[w].k
           c == MatrixOrder[k]
       IN  /\ premium' = [premium EXCEPT !.matrix_[c] = recalculate_matrix(premium)[c]]
           /\ premium_threads' = [premium_threads EXCEPT
                                     !.writers[w].pc = IF k = 16 THEN "scan" ELSE "matrix",
                                     !.writers[w].k = IF k = 16 THEN 1 ELSE k + 1]
    /\ UNCHANGED <<outside_premium, premium_obs>>

\* recalculate's second loop up to the next cell at or above the threshold:
\* unlock for its callback, or leave recalculate and release the lock.
MatrixScan(w) ==
    /\ premium_threads.writers[w].pc = "scan"
    /\ LET j == next_callback(premium, premium_threads.writers[w].k)
       IN  premium_threads' =
              IF j = 0
              THEN [premium_threads EXCEPT !.mutex_ = 0, !.writers[w].pc = "done"]
              ELSE [premium_threads EXCEPT !.mutex_ = unlock_for_callback(w),
                                           !.writers[w].pc = "callback",
                                           !.writers[w].k = j]
    /\ UNCHANGED <<outside_premium, premium, premium_obs>>

\* callback_(info), a callback that calls get_matrix: it needs the shared lock.
MatrixCallback(w) ==
    /\ premium_threads.writers[w].pc = "callback"
    /\ premium_threads.mutex_ = 0
    /\ premium_threads' = [get_matrix(premium_threads) EXCEPT !.writers[w].pc = "relock"]
    /\ UNCHANGED <<outside_premium, premium, premium_obs>>

\* lock.lock() after the callback; the loop goes on with the next cell.
MatrixRelock(w) ==
    /\ premium_threads.writers[w].pc = "relock"
    /\ premium_threads.mutex_ = 0
    /\ premium_threads' = [premium_threads EXCEPT
                              !.mutex_ = w,
                              !.writers[w].pc = "scan",
                              !.writers[w].k = @ + 1]
    /\ UNCHANGED <<outside_premium, premium, premium_obs>>

\* get_matrix called by a reader thread: a copy under the shared lock.
MatrixGetMatrix ==
    /\ premium_threads.mutex_ = 0
    /\ premium_threads' = get_matrix(premium_threads)
    /\ UNCHANGED <<outside_premium, premium, premium_obs>>

MatrixNext ==
    \/ \E w \in Writers, ex \in Exchanges, price \in KrwPrices \cup UsdtPrices :
          MatrixStorePrice(w, ex, price)
    \/ \E w \in Writers, rate \in FxRates : MatrixStoreFx(w, rate)
    \/ \E w \in Writers : MatrixLock(w)
    \/ \E w \in Writers : MatrixCell(w)
    \/ \E w \in Writers : MatrixScan(w)
    \/ \E w \in Writers : MatrixCallback(w)
    \/ \E w \in Writers : MatrixRelock(w)
    \/ MatrixGetMatrix

SpecMatrix == MatrixInit /\ [][MatrixNext]_vars

(***************************************************************************)
(* Claims about the premium calculator under concurrent calls.             *)
(***************************************************************************)
\* C22: every update has triggered exactly one recomputation when it returns,
\* and every matrix get_matrix has returned is the complete result of one
\* recomputation over a single (prices, FX rate) input state.
C22_MatrixOfOneInput ==
    /\ \A w \in Writers :
          premium_threads.writers[w].pc = "done" =>
              premium_threads.writers[w].recalculations = 1
    /\ ~premium_threads.mixed

\* C23: a thread that is about to run or is running the callback does not hold
\* mutex_, and whoever holds it is a writer inside recalculate's loops, which
\* releases it without waiting for anyone: get_matrix in the callback returns.
C23_CallbackWithoutLock ==
    \A w \in Writers :
        premium_threads.writers[w].pc = "callback" =>
            /\ premium_threads.mutex_ # w
            /\ premium_threads.mutex_ # 0 =>
                  premium_threads.writers[premium_threads.mutex_].pc \in {"matrix", "scan"}

\* A callback has called get_matrix and returned while the other writer was
\* waiting for the lock.
C23_Witness ==
    \E w \in Writers, v \in Writers :
        /\ premium_threads.writers[w].pc = "relock"
        /\ premium_threads.writers[v].pc = "lock"
        /\ premium_threads.returned
        /\ premium_threads.mutex_ = 0

(***************************************************************************)
(* SpecTransfer: TransferManager::initiate_sync on any request.            *)
(*                                                                         *)
(* withdraw() is where the venue's HTTP API is called.  Its answer is the  *)
(* venue's: the model draws it from both outcomes of Result<std::string>   *)
(* (the wiring in the tree answers every call with NotImplemented).        *)
(***************************************************************************)
TransferAmounts == (0 - 1)..MaxAmount

TransferRequests ==
    [from       : Exchanges,
     to         : Exchanges,
     coin       : {"XRP", "BTC"},
     amount     : TransferAmounts,
     to_address : [address : {"", "rUpbitAddress"},
                   destination_tag : {"", "12345678"}]]

has_destination_tag(addr) == addr.destination_tag # ""

\* A validation that lets every request through.
always_valid(req) == TRUE

\* TransferRequest::is_valid
transfer_is_valid(req) ==
    IF req.from = req.to THEN FALSE
    ELSE IF req.amount <= 0 THEN FALSE
    ELSE IF req.to_address.address = "" THEN FALSE
    ELSE IF req.coin = "XRP" /\ ~has_destination_tag(req.to_address) THEN FALSE
    ELSE TRUE

\* transfer_fees::get_min_withdraw
get_min_withdraw(ex) ==
    CASE ex = "Upbit"   -> UPBIT_XRP_MIN
      [] ex = "Bithumb" -> BITHUMB_XRP_MIN
      [] ex = "Binance" -> BINANCE_XRP_MIN
      [] ex = "MEXC"    -> MEXC_XRP_MIN
      [] OTHER          -> 20

\* TransferResult::set_error
set_error(res, msg) == [res EXCEPT !.error_message = msg, !.status = "Failed"]

\* initiate_sync's value, the counters it bumps, and whether it called
\* withdraw(); accepted is the venue's answer to that call.
initiate_sync(mgr, req, accepted) ==
    LET started == [NewTransferResult EXCEPT !.amount = req.amount]
        failed  == [successful |-> 0, failed |-> 1, withdraw |-> FALSE]
    IN  IF ~transfer_is_valid(req)
        THEN [result |-> set_error(started, "Invalid transfer request")] @@ failed
        ELSE IF req.amount < get_min_withdraw(req.from)
        THEN [result |-> set_error(started, "Amount is below minimum")] @@ failed
        ELSE IF req.from \notin mgr.order_clients_
        THEN [result |-> set_error(started, "Withdraw exchange not configured")] @@ failed
        ELSE IF mgr.dry_run_
        THEN [result   |-> [started EXCEPT !.transfer_id = "DRY",
                                           !.status = "Completed",
                                           !.tx_hash = "0x"],
              successful |-> 1, failed |-> 0, withdraw |-> FALSE]
        ELSE IF ~accepted
        THEN [result |-> set_error(started, "withdraw failed"),
              successful |-> 0, failed |-> 1, withdraw |-> TRUE]
        ELSE [result   |-> [started EXCEPT !.transfer_id = "id",
                                           !.status = "Processing"],
              successful |-> 0, failed |-> 0, withdraw |-> TRUE]

TransferInit ==
    /\ transfer \in {[NewTransferManager EXCEPT !.order_clients_ = clients] :
                        clients \in {{}, {"Binance"}, Exchanges}}
    /\ transfer_call = NoTransferCall
    /\ transfer_obs = NoTransferObs
    /\ Unused({"transfer"})

\* set_dry_run
TransferSetDryRun(enabled) ==
    /\ transfer.dry_run_ # enabled
    /\ transfer' = [transfer EXCEPT !.dry_run_ = enabled]
    /\ UNCHANGED <<transfer_call, transfer_obs>>
    /\ UNCHANGED outside_transfer

\* initiate_sync(req), from its first line to its return.
TransferInitiate(req, accepted) ==
    /\ transfer_call.pc = "idle"
    /\ transfer.stats_.total_transfers < MaxTransfers
    /\ LET out == initiate_sync(transfer, req, accepted)
       IN  /\ transfer' =
                [transfer EXCEPT !.stats_.total_transfers = @ + 1,
                                 !.stats_.successful = @ + out.successful,
                                 !.stats_.failed = @ + out.failed]
           /\ transfer_call' =
                [transfer_call EXCEPT !.pc = "initiated",
                                      !.request = req,
                                      !.result = out.result]
           /\ transfer_obs' =
                [transfer_obs EXCEPT !.api = IF out.withdraw THEN {"withdraw"} ELSE {},
                                     !.withdraw_calls =
                                        @ + (IF out.withdraw THEN 1 ELSE 0)]
    /\ UNCHANGED outside_transfer

\* The caller has taken the TransferResult; the call's locals are gone.
TransferReturn ==
    /\ transfer_call.pc = "initiated"
    /\ transfer_call' = NoTransferCall
    /\ transfer_obs' = [transfer_obs EXCEPT !.api = {}]
    /\ UNCHANGED transfer
    /\ UNCHANGED outside_transfer

TransferNext ==
    \/ \E enabled \in BOOLEAN : TransferSetDryRun(enabled)
    \/ TransferReturn
    \/ \E req \in TransferRequests, accepted \in BOOLEAN : TransferInitiate(req, accepted)

SpecTransfer == TransferInit /\ [][TransferNext]_vars

\* What the validation of initiate asks of a request.
may_withdraw(req) ==
    /\ req.from # req.to
    /\ req.amount > 0
    /\ req.to_address.address # ""
    /\ req.coin = "XRP" => req.to_address.destination_tag # ""
    /\ req.amount >= get_min_withdraw(req.from)

StatusReplies == TransferStatuses \cup {"error"}

\* get_withdraw_status: reply is what the venue answers.
get_withdraw_status(mgr, reply) == IF mgr.dry_run_ THEN "Completed" ELSE reply

\* A loop that only a completed transfer ends.
ends_on_completed(status) == status = "Completed"

\* The statuses on which wait_completion's loop returns.
ends_polling(status) ==
    status = "Completed" \/ status = "Failed" \/ status = "Cancelled"

\* TransferManager::record_result
transfer_record_result(stats, res) ==
    IF res.status = "Completed"
    THEN [stats EXCEPT !.successful = @ + 1]
    ELSE IF res.status \in {"Failed", "Timeout", "Cancelled"}
    THEN [stats EXCEPT !.failed = @ + 1]
    ELSE stats

\* The task has run up to its loop: result and deadline are set.
WaitInit ==
    /\ \E dry_run \in BOOLEAN, callback \in BOOLEAN :
          transfer = [NewTransferManager EXCEPT !.order_clients_ = {"Binance"},
                                                !.dry_run_ = dry_run,
                                                !.status_callback_ = callback]
    /\ \E timeout \in 0..MaxTimeout, poll_interval \in 1..MaxPollInterval :
          transfer_call = [NoTransferCall EXCEPT !.pc = "wait",
                                                 !.result.transfer_id = "id",
                                                 !.timeout = timeout,
                                                 !.deadline = timeout,
                                                 !.poll_interval = poll_interval]
    /\ transfer_obs = NoTransferObs
    /\ Unused({"transfer"})

\* One turn of the loop: the status query, the callback, and then either
\* the return or the sleep.
WaitPoll(reply, late) ==
    /\ transfer_call.pc = "wait"
    /\ transfer_call.now < transfer_call.deadline
    /\ LET status_result == get_withdraw_status(transfer, reply)
           asleep == transfer_call.now + transfer_call.poll_interval + late
           polled == [transfer_obs EXCEPT !.api = @ \cup {"get_withdraw_status"},
                                          !.status_calls = @ + 1]
       IN  IF status_result = "error"
           THEN /\ transfer_call' = [transfer_call EXCEPT !.now = asleep]
                /\ transfer_obs' = polled
                /\ UNCHANGED transfer
           ELSE LET res == [transfer_call.result EXCEPT !.status = status_result]
                IN  /\ transfer_obs' =
                          [polled EXCEPT
                              !.callbacks = @ + (IF transfer.status_callback_ THEN 1 ELSE 0),
                              !.transitions = @ + (IF status_result # transfer_obs.last
                                                   THEN 1 ELSE 0),
                              !.last = status_result]
                    /\ IF ends_polling(status_result)
                       THEN /\ transfer_call' = [transfer_call EXCEPT !.pc = "returned",
                                                                      !.result = res]
                            /\ transfer' = [transfer EXCEPT
                                               !.stats_ = transfer_record_result(@, res)]
                       ELSE /\ transfer_call' = [transfer_call EXCEPT !.now = asleep,
                                                                      !.result = res]
                            /\ UNCHANGED transfer
    /\ UNCHANGED outside_transfer

\* The loop condition fails: the deadline has passed.
WaitTimeout ==
    /\ transfer_call.pc = "wait"
    /\ transfer_call.now >= transfer_call.deadline
    /\ transfer_call' =
          [transfer_call EXCEPT
              !.pc = "returned",
              !.result = set_error([@ EXCEPT !.status = "Timeout"], "Transfer timeout")]
    /\ transfer' = [transfer EXCEPT !.stats_.timeout = @ + 1]
    /\ UNCHANGED transfer_obs
    /\ UNCHANGED outside_transfer

WaitNext ==
    \/ \E reply \in StatusReplies, late \in 0..MaxOversleep : WaitPoll(reply, late)
    \/ WaitTimeout

\* The task is a thread of its own: it keeps running until it returns.
SpecWait == WaitInit /\ [][WaitNext]_vars /\ WF_vars(WaitNext)

\* C25: wait_completion returns in every run, also when every status query
\* fails.  A poll that observes Completed, Failed or Cancelled is the last
\* one and its status is the result's; without such a poll the task returns
\* only once the deadline has passed; between two polls lies at least one
\* poll_interval.
C25_WaitTerminates ==
    /\ <>(transfer_call.pc = "returned")
    /\ [](/\ transfer_obs.last \in {"Completed", "Failed", "Cancelled"} =>
                /\ transfer_call.pc = "returned"
                /\ transfer_call.result.status = transfer_obs.last
          /\ (transfer_call.pc = "returned"
                /\ transfer_obs.last \notin {"Completed", "Failed", "Cancelled"}) =>
                transfer_call.now >= transfer_call.deadline
          /\ transfer_call.pc = "wait" =>
                transfer_call.now >= transfer_obs.status_calls * transfer_call.poll_interval)

\* The task has returned at the deadline although each of its several
\* status queries failed.
C25_Witness ==
    /\ transfer_call.pc = "returned"
    /\ transfer_obs.status_calls >= 2
    /\ transfer_obs.last = "None"
    /\ transfer_call.now >= transfer_call.deadline

LegsInit ==
    /\ ExecInit
    /\ entry = "execute_sync"
    /\ order_clients_ = {"Upbit", "Binance"}

\* A leg's task inside execute_single: place_order has been called and does
\* not return.
PlaceOrderHangs(leg) ==
    /\ IF leg = "buy"
       THEN /\ buy_future.st = "running"
            /\ request.buy_order.exchange \in order_clients_
            /\ buy_future' = [buy_future EXCEPT !.st = "hung"]
            /\ place_calls' = count_place(place_calls, order_clients_, request.buy_order)
            /\ UNCHANGED sell_future
       ELSE /\ sell_future.st = "running"
            /\ request.sell_order.exchange \in order_clients_
            /\ sell_future' = [sell_future EXCEPT !.st = "hung"]
            /\ place_calls' = count_place(place_calls, order_clients_, request.sell_order)
            /\ UNCHANGED buy_future
    /\ UNCHANGED <<outside_exec, config_vars, pc, result, stats_, plan,
                   recovery_result, rm_stats_, callbacks, attempt_log>>

LegsNext ==
    \/ ExecNext
    \/ \E leg \in {"buy", "sell"} : PlaceOrderHangs(leg)

\* Every thread that can take a step takes it.
SpecLegs == LegsInit /\ [][LegsNext]_vars /\ WF_vars(LegsNext)

\* C27: when a leg's place_order does not complete, execute_sync still
\* returns, and that leg's outcome is an error of kind ConnectionTimeout.
C27_HungLegTimesOut ==
    /\ buy_future.st = "hung" ~>
          (pc = "returned" /\ result.buy_result.error = "ConnectionTimeout")
    /\ sell_future.st = "hung" ~>
          (pc = "returned" /\ result.sell_result.error = "ConnectionTimeout")

\* C28: the DualOrderResult that execute_sync returns after auto-recovery
\* has executed a plan holds the recovery outcome: the plan and whether it
\* succeeded.
C28_ResultCarriesRecovery ==
    (entry = "execute_sync" /\ pc = "returned" /\ stats_.recovery_attempts > 0) =>
        \E field \in DOMAIN result : result[field] = recovery_result

(***************************************************************************)
(* SpecLimiter: threads calling TokenBucketRateLimiter::try_acquire(1)     *)
(* while the clock runs.  One step per atomic access.  A                   *)
(* compare_exchange_weak fails only when the value differs (a spurious     *)
(* failure of the loops only repeats them).                                *)
(***************************************************************************)
LimiterInit ==
    /\ \E burst \in 1..MaxBurst : limiter = NewLimiter(1, burst)
    /\ limiter_threads = NoLimiterThreads
    /\ limiter_obs = NoLimiterObs
    /\ Unused({"limiter"})

\* The steady clock moves on by a millisecond.
LimiterTick ==
    /\ limiter_obs.clock < MaxClock
    /\ limiter_obs' = [limiter_obs EXCEPT !.clock = @ + 1]
    /\ UNCHANGED <<limiter, limiter_threads>>
    /\ UNCHANGED outside_limiter

\* try_acquire is called; refill reads the clock (line 128).
LimiterNow(t) ==
    /\ limiter_threads[t].pc = "idle"
    /\ limiter_threads[t].calls < MaxAcquires
    /\ limiter_threads' = [limiter_threads EXCEPT ![t].pc = "load_last",
                                                  ![t].calls = @ + 1,
                                                  ![t].now = limiter_obs.clock]
    /\ UNCHANGED <<limiter, limiter_obs>>
    /\ UNCHANGED outside_limiter

\* refill, lines 131-136: load last_refill_, skip below one millisecond.
LimiterLoadLast(t) ==
    /\ limiter_threads[t].pc = "load_last"
    /\ LET elapsed == limiter_threads[t].now - limiter.last_refill_
       IN  limiter_threads' =
              [limiter_threads EXCEPT ![t].last = limiter.last_refill_,
                                      ![t].elapsed = elapsed,
                                      ![t].pc = IF elapsed < 1 THEN "acquire_load"
                                                ELSE "cas_last"]
    /\ UNCHANGED <<limiter, limiter_obs>>
    /\ UNCHANGED outside_limiter

\* refill, lines 139-144: claim the interval, or leave it to the other thread.
LimiterCasLast(t) ==
    /\ limiter_threads[t].pc = "cas_last"
    /\ IF limiter.last_refill_ = limiter_threads[t].last
       THEN /\ limiter' = [limiter EXCEPT !.last_refill_ = limiter_threads[t].now]
            /\ limiter_threads' = [limiter_threads EXCEPT ![t].pc = "refill_load"]
       ELSE /\ limiter_threads' = [limiter_threads EXCEPT ![t].pc = "acquire_load"]
            /\ UNCHANGED limiter
    /\ UNCHANGED limiter_obs
    /\ UNCHANGED outside_limiter

\* std::min(current + add, burst_) with add = elapsed * rate_
refilled(lim, current, elapsed) == Min(current + elapsed * lim.rate_, lim.burst_)

\* refill, lines 147-149: load tokens_ and compute the new level.
LimiterRefillLoad(t) ==
    /\ limiter_threads[t].pc = "refill_load"
    /\ limiter_threads' =
          [limiter_threads EXCEPT
              ![t].current = limiter.tokens_,
              ![t].new_tokens = refilled(limiter, limiter.tokens_, limiter_threads[t].elapsed),
              ![t].pc = "refill_cas"]
    /\ UNCHANGED <<limiter, limiter_obs>>
    /\ UNCHANGED outside_limiter

\* refill, lines 151-156: one turn of the loop that stores the new level.
LimiterRefillCas(t) ==
    /\ limiter_threads[t].pc = "refill_cas"
    /\ IF limiter.tokens_ = limiter_threads[t].current
       THEN /\ limiter' = [limiter EXCEPT !.tokens_ = limiter_threads[t].new_tokens]
            /\ limiter_threads' = [limiter_threads EXCEPT ![t].pc = "acquire_load"]
       ELSE /\ limiter_threads' =
                  [limiter_threads EXCEPT
                      ![t].current = limiter.tokens_,
                      ![t].new_tokens =
                          refilled(limiter, limiter.tokens_, limiter_threads[t].elapsed)]
            /\ UNCHANGED limiter
    /\ UNCHANGED limiter_obs
    /\ UNCHANGED outside_limiter

\* try_acquire, line 60: load tokens_.
LimiterAcquireLoad(t) ==
    /\ limiter_threads[t].pc = "acquire_load"
    /\ limiter_threads' = [limiter_threads EXCEPT ![t].current = limiter.tokens_,
                                                  ![t].pc = "acquire_cas"]
    /\ UNCHANGED <<limiter, limiter_obs>>
    /\ UNCHANGED outside_limiter

\* try_acquire, lines 62-70: one turn of the loop, or the return of false.
LimiterAcquireCas(t) ==
    /\ limiter_threads[t].pc = "acquire_cas"
    /\ IF limiter_threads[t].current >= 1
       THEN IF limiter.tokens_ = limiter_threads[t].current
            THEN /\ limiter' = [limiter EXCEPT !.tokens_ = @ - 1]
                 /\ limiter_threads' = [limiter_threads EXCEPT ![t].pc = "idle"]
                 /\ limiter_obs' = [limiter_obs EXCEPT !.granted[limiter_obs.clock] = @ + 1]
            ELSE /\ limiter_threads' =
                       [limiter_threads EXCEPT ![t].current = limiter.tokens_]
                 /\ UNCHANGED <<limiter, limiter_obs>>
       ELSE /\ limiter_threads' = [limiter_threads EXCEPT ![t].pc = "idle"]
            /\ UNCHANGED <<limiter, limiter_obs>>
    /\ UNCHANGED outside_limiter

LimiterNext ==
    \/ LimiterTick
    \/ \E t \in LimiterThreadIds :
          \/ LimiterNow(t)
          \/ LimiterLoadLast(t)
          \/ LimiterCasLast(t)
          \/ LimiterRefillLoad(t)
          \/ LimiterRefillCas(t)
          \/ LimiterAcquireLoad(t)
          \/ LimiterAcquireCas(t)

SpecLimiter == LimiterInit /\ [][LimiterNext]_vars

RECURSIVE granted_between(_, _)
\* How many try_acquire calls returned true at the ticks from..to.
granted_between(from, to) ==
    IF from > to THEN 0
    ELSE limiter_obs.granted[from] + granted_between(from + 1, to)

\* C29: in every window of T ticks, at most burst + rate * T calls of
\* try_acquire(1) have returned true, whatever the interleaving.
C29_RateBound ==
    \A from \in 0..MaxClock, to \in 0..MaxClock :
        from <= to =>
            granted_between(from, to) <= limiter.burst_ + limiter.rate_ * (to - from)

(***************************************************************************)
(* SpecEvents: the io thread calls emit_event, the main thread polls       *)
(* event_queue().  push and pop are taken as one step each.                *)
(***************************************************************************)
EventsInit ==
    /\ \E callback \in BOOLEAN : events = [NewEvents EXCEPT !.event_callback_ = callback]
    /\ events_obs = NoEventsObs
    /\ Unused({"events"})

\* SPSCQueue::push on the queue record q: the queue afterwards.
queue_push(q, item) ==
    IF spsc_full(spsc_next(q.head_, q.mask_), q.tail_) THEN q
    ELSE [q EXCEPT !.buffer_[q.head_] = item, !.head_ = spsc_next(q.head_, q.mask_)]

\* The session's queue takes no further event.
queue_is_full(q) == spsc_full(spsc_next(q.head_, q.mask_), q.tail_)

\* emit_event(evt): the callback if there is one, else the queue; a refused
\* push is logged and nothing else.
EmitEvent ==
    /\ events_obs.emitted < MaxEvents
    /\ LET evt == events_obs.emitted + 1
           sent == [events_obs EXCEPT !.emitted = evt]
       IN  IF events.event_callback_
           THEN /\ events_obs' = [sent EXCEPT !.delivered = Append(@, evt)]
                /\ UNCHANGED events
           ELSE IF queue_is_full(events.event_queue_)
           THEN /\ events_obs' = [sent EXCEPT !.refused = Append(@, evt)]
                /\ UNCHANGED events
           ELSE /\ events' = [events EXCEPT !.event_queue_ = queue_push(@, evt)]
                /\ events_obs' = sent
    /\ UNCHANGED outside_events

\* The main thread: event_queue().pop(evt) on a queue that holds an event.
PollEvent ==
    /\ ~spsc_empty(events.event_queue_.tail_, events.event_queue_.head_)
    /\ events_obs' = [events_obs EXCEPT
                         !.polled = Append(@, events.event_queue_.buffer_[
                                                  events.event_queue_.tail_])]
    /\ events' = [events EXCEPT
                     !.event_queue_.tail_ = spsc_next(@, events.event_queue_.mask_)]
    /\ UNCHANGED outside_events

\* on_event(cb) / on_event(nullptr)
OnEvent(callback) ==
    /\ events.event_callback_ # callback
    /\ events' = [events EXCEPT !.event_callback_ = callback]
    /\ UNCHANGED events_obs
    /\ UNCHANGED outside_events

EventsNext ==
    \/ EmitEvent
    \/ PollEvent
    \/ \E callback \in BOOLEAN : OnEvent(callback)

SpecEvents == EventsInit /\ [][EventsNext]_vars

\* C30: an emit_event on a full queue drops the new event, leaves the
\* queued events as they are, and raises a drop counter of the session by
\* one.
C30_DropCounted ==
    [][(EmitEvent /\ ~events.event_callback_ /\ queue_is_full(events.event_queue_)) =>
          /\ events'.event_queue_ = events.event_queue_
          /\ Len(events_obs'.refused) = Len(events_obs.refused) + 1
          /\ \E counter \in DOMAIN events.stats_ :
                events'.stats_[counter] = events.stats_[counter] + 1]_vars

(***************************************************************************)
(* SpecDecode: SpecWs and SpecMexc with a venue that also sends frames     *)
(* the session cannot decode.  The session's Stats are those of the event  *)
(* delivery model.                                                         *)
(***************************************************************************)
DecodeInit ==
    /\ Unused({"ws", "events"})
    /\ \/ ws = NewSession("Upbit", 0, 0, 0)
       \/ \E orderbook \in 0..MaxSymbols, ticker \in 0..MaxSymbols, trade \in 0..MaxSymbols :
             ws = NewSession("MEXC", orderbook, ticker, trade)
    /\ ws_io = NoIo
    /\ ws_obs = NoObs
    /\ events = NewEvents
    /\ events_obs = NoEventsObs

\* A catch block that treats the exception as a failed read.
parse_error_fails(st) == fail(st, 1)

\* on_read's catch block (MEXC: parse_message's own): the error is logged.
parse_error_logged(st) == st

\* on_read without error for a frame whose parse_message throws (or, for
\* MEXC, catches its own exception): the frame is counted, the error is
\* logged, and do_read starts the next read.
WsOnReadUndecodable ==
    /\ ws_io.read
    /\ ws_io.link = "up"
    /\ ws.is_open
    /\ events.stats_.messages_received < MaxBadFrames
    /\ events' = [events EXCEPT !.stats_.messages_received = @ + 1,
                                !.stats_.bytes_received = @ + 1]
    /\ LET st == parse_error_logged(WsState)
       IN  /\ ws' = st.ws
           /\ ws_io' = st.io
           /\ ws_obs' = st.obs
    /\ UNCHANGED events_obs
    /\ UNCHANGED <<exec_vars, queue_vars, pool_vars, premium_vars, transfer_vars,
                   limiter_vars, rq_vars, analyzer_vars>>

DecodeNext ==
    \/ WsNext
    \/ WsOnReadUndecodable

SpecDecode == DecodeInit /\ [][DecodeNext]_vars

RecoveryQueueInit ==
    /\ Unused({"rq"})
    /\ \E has_callback \in BOOLEAN : rq = NewRecoveryQueue(has_callback)
    /\ rq_obs = NoRecoveryQueueObs

\* cv_.notify_one() / cv_.notify_all(): a worker blocked in cv_.wait goes
\* back to acquiring mutex_ and evaluating the predicate.
notified(worker) == IF worker = "waiting" THEN "lock" ELSE worker

\* pending_count()
pending_count(q) == Len(q.queue_)

\* enqueue(plan): lock, queue_.push(plan), notify_one.
RqEnqueue ==
    /\ rq_obs.enqueued < MaxEnqueues
    /\ rq.worker # "blocking"
    /\ rq' = [rq EXCEPT !.queue_ = Append(@, rq_obs.enqueued + 1),
                        !.worker = notified(@)]
    /\ rq_obs' = [rq_obs EXCEPT !.enqueued = @ + 1]
    /\ UNCHANGED outside_rq

\* start(): returns at once when running_ was already true, else creates
\* the worker thread.
RqStart ==
    /\ ~rq.joining
    /\ ~rq.running_
    /\ rq.starts < MaxStarts
    /\ rq.worker \in {"none", "exited"}
    /\ rq' = [rq EXCEPT !.running_ = TRUE, !.worker = "while", !.starts = @ + 1]
    /\ UNCHANGED <<rq_obs, outside_rq>>

\* stop() up to join(): running_.exchange(false), cv_.notify_all().
RqStop ==
    /\ ~rq.joining
    /\ rq.running_
    /\ rq' = [rq EXCEPT !.running_ = FALSE, !.worker = notified(@),
                        !.joining = TRUE]
    /\ rq_obs' = [rq_obs EXCEPT !.at_stop = rq_obs.enqueued, !.stopped = TRUE]
    /\ UNCHANGED outside_rq

\* worker_.join() returns once worker_loop has returned.
RqJoin ==
    /\ rq.joining
    /\ rq.worker = "exited"
    /\ rq' = [rq EXCEPT !.joining = FALSE]
    /\ UNCHANGED <<rq_obs, outside_rq>>

\* while (running_)
RqWorkerWhile ==
    /\ rq.worker = "while"
    /\ rq' = [rq EXCEPT !.worker = IF rq.running_ THEN "lock" ELSE "exited"]
    /\ UNCHANGED <<rq_obs, outside_rq>>

\* The locked block of worker_loop: the wait predicate, and when it holds
\* the break, the continue or the pop of the front plan.
RqWorkerLock ==
    /\ rq.worker = "lock"
    /\ rq' = IF rq.running_ /\ rq.queue_ = <<>>
                THEN [rq EXCEPT !.worker = "blocking"]
             ELSE IF ~rq.running_ /\ rq.queue_ = <<>>
                THEN [rq EXCEPT !.worker = "exited"]
             ELSE [rq EXCEPT !.plan = Head(rq.queue_), !.queue_ = Tail(@),
                             !.worker = "execute"]
    /\ UNCHANGED <<rq_obs, outside_rq>>

\* cv_.wait releases mutex_ and blocks.
RqWorkerBlock ==
    /\ rq.worker = "blocking"
    /\ rq' = [rq EXCEPT !.worker = "waiting"]
    /\ UNCHANGED <<rq_obs, outside_rq>>

\* manager_->execute_recovery(plan); if (callback_) callback_(result);
RqWorkerExecute ==
    /\ rq.worker = "execute"
    /\ rq' = [rq EXCEPT !.worker = "while", !.plan = 0]
    /\ rq_obs' = [rq_obs EXCEPT
                    !.executed = Append(@, rq.plan),
                    !.callbacks = IF rq.callback_ THEN Append(@, rq.plan) ELSE @]
    /\ UNCHANGED outside_rq

RecoveryQueueNext ==
    \/ RqEnqueue
    \/ RqStart
    \/ RqStop
    \/ RqJoin
    \/ RqWorkerWhile
    \/ RqWorkerLock
    \/ RqWorkerBlock
    \/ RqWorkerExecute

SpecRecoveryQueue == RecoveryQueueInit /\ [][RecoveryQueueNext]_vars

\* C32: the number of pending plans never exceeds a fixed capacity: some
\* capacity below the number of enqueue calls made is never exceeded, so
\* that enqueue refuses or blocks once the queue is full.
C32_PendingBounded ==
    \E capacity \in 0..(MaxEnqueues - 1) : pending_count(rq) <= capacity

\* C38: plans are executed once each in the order of their enqueue calls,
\* the completion callback (when one is set) is invoked for each, and when
\* the worker has exited after stop() every plan that was pending at the
\* call of stop() has been executed.
C38_PendingExecutedBeforeExit ==
    /\ \A i \in 1..Len(rq_obs.executed) : rq_obs.executed[i] = i
    /\ rq.callback_ => rq_obs.callbacks = rq_obs.executed
    /\ (rq_obs.stopped /\ rq.worker = "exited")
          => Len(rq_obs.executed) >= rq_obs.at_stop

(***************************************************************************)
(* SpecAnalyzer: one OrderBookAnalyzer, its single writer thread in        *)
(* update and reader threads in get_orderbook, get_liquidity and           *)
(* estimate_slippage. The copy of a book or of its metrics takes one step  *)
(* per side, so a reader that ran beside the writer would see the sides    *)
(* of two different updates.                                               *)
(***************************************************************************)
AnalyzerInit ==
    /\ Unused({"analyzer"})
    /\ analyzer = NewAnalyzer
    /\ analyzer_obs = [updates |-> 0]

AnalyzerReads == {"get_orderbook", "get_liquidity", "estimate_slippage"}

\* std::unique_lock<std::shared_mutex> can be taken.
unlocked_always(m) == TRUE

can_lock_unique(m) == ~m.unique /\ m.shared = {}

\* std::shared_lock<std::shared_mutex> can be taken.
can_lock_shared(m) == ~m.unique

\* liquidity_calc_.calculate(ob): the metrics of the book it is given.
calculate(ob) == ob

\* What a read copies or evaluates: metrics_[idx] for get_liquidity,
\* orderbooks_[idx] for the other two.
read_source(a, call, ex) ==
    IF call = "get_liquidity" THEN a.metrics_[ex] ELSE a.orderbooks_[ex]

\* update(ex, ob) up to the acquisition of the unique lock.
AnalyzerUpdateLock(ex) ==
    /\ analyzer.writer.pc = "idle"
    /\ analyzer_obs.updates < MaxUpdates
    /\ can_lock_unique(analyzer.mutex_)
    /\ analyzer' = [analyzer EXCEPT
                      !.mutex_.unique = TRUE,
                      !.writer = [pc |-> "book_bid", ex |-> ex,
                                  ob |-> BookOf(analyzer_obs.updates + 1)]]
    /\ analyzer_obs' = [analyzer_obs EXCEPT !.updates = @ + 1]
    /\ UNCHANGED outside_analyzer

\* orderbooks_[idx] = ob; metrics_[idx] = liquidity_calc_.calculate(ob);
\* one side at a time, then the release of the lock.
AnalyzerUpdateStep ==
    LET w == analyzer.writer IN
    /\ w.pc \in {"book_bid", "book_ask", "metrics_bid", "metrics_ask", "unlock"}
    /\ analyzer' =
         CASE w.pc = "book_bid" ->
                [analyzer EXCEPT !.orderbooks_[w.ex].bid = w.ob.bid,
                                 !.writer.pc = "book_ask"]
           [] w.pc = "book_ask" ->
                [analyzer EXCEPT !.orderbooks_[w.ex].ask = w.ob.ask,
                                 !.writer.pc = "metrics_bid"]
           [] w.pc = "metrics_bid" ->
                [analyzer EXCEPT !.metrics_[w.ex].bid = calculate(w.ob).bid,
                                 !.writer.pc = "metrics_ask"]
           [] w.pc = "metrics_ask" ->
                [analyzer EXCEPT !.metrics_[w.ex].ask = calculate(w.ob).ask,
                                 !.writer.pc = "unlock"]
           [] w.pc = "unlock" ->
                [analyzer EXCEPT !.mutex_.unique = FALSE,
                                 !.writer.pc = "alerts"]
    /\ UNCHANGED <<analyzer_obs, outside_analyzer>>

\* stats_.updates.fetch_add and check_liquidity_alerts(ex, metrics_[idx]):
\* the writer reads back its own metrics without the lock and returns.
AnalyzerUpdateReturn ==
    /\ analyzer.writer.pc = "alerts"
    /\ analyzer' = [analyzer EXCEPT !.writer.pc = "idle"]
    /\ UNCHANGED <<analyzer_obs, outside_analyzer>>

\* A read up to the acquisition of the shared lock.
AnalyzerReadLock(r, call, ex) ==
    /\ analyzer.readers[r].pc = "idle"
    /\ can_lock_shared(analyzer.mutex_)
    /\ analyzer' = [analyzer EXCEPT
                      !.mutex_.shared = @ \cup {r},
                      !.readers[r] = [pc |-> "bid", call |-> call, ex |-> ex,
                                      out |-> BookOf(0)]]
    /\ UNCHANGED <<analyzer_obs, outside_analyzer>>

\* The copy (or the evaluation) of the record under the shared lock, one
\* side at a time, then the release of the lock.
AnalyzerReadStep(r) ==
    LET rd == analyzer.readers[r]
        src == read_source(analyzer, rd.call, rd.ex) IN
    /\ rd.pc \in {"bid", "ask", "unlock"}
    /\ analyzer' =
         CASE rd.pc = "bid" ->
                [analyzer EXCEPT !.readers[r].out.bid = src.bid,
                                 !.readers[r].pc = "ask"]
           [] rd.pc = "ask" ->
                [analyzer EXCEPT !.readers[r].out.ask = src.ask,
                                 !.readers[r].pc = "unlock"]
           [] rd.pc = "unlock" ->
                [analyzer EXCEPT !.mutex_.shared = @ \ {r},
                                 !.readers[r].pc = "return"]
    /\ UNCHANGED <<analyzer_obs, outside_analyzer>>

\* The read returns what it copied.
AnalyzerReadReturn(r) ==
    /\ analyzer.readers[r].pc = "return"
    /\ analyzer' = [analyzer EXCEPT
                      !.readers[r] = [pc |-> "idle", call |-> "none",
                                      ex |-> "Upbit", out |-> BookOf(0)]]
    /\ UNCHANGED <<analyzer_obs, outside_analyzer>>

AnalyzerNext ==
    \/ \E ex \in AnalyzerVenues : AnalyzerUpdateLock(ex)
    \/ AnalyzerUpdateStep
    \/ AnalyzerUpdateReturn
    \/ \E r \in 1..AnalyzerReaders, call \in AnalyzerReads, ex \in AnalyzerVenues :
          AnalyzerReadLock(r, call, ex)
    \/ \E r \in 1..AnalyzerReaders : AnalyzerReadStep(r)
    \/ \E r \in 1..AnalyzerReaders : AnalyzerReadReturn(r)

SpecAnalyzer == AnalyzerInit /\ [][AnalyzerNext]_vars

\* C33: whatever the interleaving of the writer's update calls with the
\* readers, every read returns for its venue one complete record, the book
\* (or the metrics) exactly as one update wrote it or as constructed, and
\* while a reader holds the lock the book and the metrics of every venue
\* are those of one and the same update.
C33_ReadersSeeCompleteRecords ==
    /\ \A r \in 1..AnalyzerReaders :
          analyzer.readers[r].pc = "return" =>
             \E version \in 0..analyzer_obs.updates :
                analyzer.readers[r].out = BookOf(version)
    /\ analyzer.mutex_.shared # {} =>
          \A ex \in AnalyzerVenues :
             \E version \in 0..analyzer_obs.updates :
                /\ analyzer.orderbooks_[ex] = BookOf(version)
                /\ analyzer.metrics_[ex] = BookOf(version)

\* A reader returns the book of the first update while the writer is in the
\* middle of the second update of the same venue.
C33_Witness ==
    \E r \in 1..AnalyzerReaders :
       /\ analyzer.readers[r].pc = "return"
       /\ analyzer.readers[r].out = BookOf(1)
       /\ analyzer.writer.pc = "book_ask"
       /\ analyzer.writer.ex = analyzer.readers[r].ex
       /\ analyzer.writer.ob = BookOf(2)

(***************************************************************************)
(* Claims about the write pipeline and about disconnect() of a session.    *)
(***************************************************************************)
\* C34: the write pipeline of a session never stays stalled: on a connected
\* session with its transport up, the first connection or one made after a
\* write error and a reconnect, whenever messages wait in write_queue_ the
\* write of the front message is in flight, so that every message handed to
\* send_message reaches the socket.
C34_WritePipelineNeverStalls ==
    (ws.connected_ /\ ws_io.link = "up" /\ ws.write_queue_ # <<>>) => ws_io.write

\* C35: once disconnect() has been called, during a connection attempt or
\* a reconnect back-off, the session never becomes connected: no further
\* handshake succeeds (no Connected event) and connected_ never goes from
\* false to true.
C35_NoConnectionAfterDisconnect ==
    [][ws_obs.disconnected =>
          /\ ws_obs'.conn = ws_obs.conn
          /\ ws'.connected_ => ws.connected_]_vars

(***************************************************************************)
(* Claims about the outcome of execute_sync and about recovery orders.     *)
(***************************************************************************)
\* The number of the three outcome predicates that hold of a result.
outcomes_true(res) ==
    (IF both_success(res) THEN 1 ELSE 0) + (IF partial_fill(res) THEN 1 ELSE 0)
       + (IF both_failed(res) THEN 1 ELSE 0)

\* C36: of the result execute_sync returns exactly one of both_success(),
\* partial_fill() and both_failed() is true, and the statistics count the
\* call once, under that outcome: after the one call of a run
\* total_requests = successful_dual + partial_success + total_failures = 1.
C36_OneOutcomeCounted ==
    (entry = "execute_sync" /\ pc = "returned") =>
       /\ outcomes_true(result) = 1
       /\ stats_.total_requests = 1
       /\ stats_.successful_dual = (IF both_success(result) THEN 1 ELSE 0)
       /\ stats_.partial_success = (IF partial_fill(result) THEN 1 ELSE 0)
       /\ stats_.total_failures = (IF both_failed(result) THEN 1 ELSE 0)

\* C37: every recovery order that execute_sync's recovery actually places
\* (a place_order call of the recovery manager on a configured venue) has
\* quantity > 0.
C37_RecoveryOrderHasQuantity ==
    [][(entry = "execute_sync" /\ pc = "attempt" /\ place_calls' # place_calls)
          => plan.recovery_order.quantity > 0]_vars

(***************************************************************************)
(* Claims about the deadline of wait_completion and the reconnect delay.   *)
(***************************************************************************)
\* C39: when wait_completion returns without having observed Completed,
\* Failed or Cancelled (its deadline has passed), the result's status is
\* Timeout and of the outcome counters only timeout has been incremented.
C39_TimeoutStatus ==
    (transfer_call.pc = "returned"
        /\ transfer_obs.last \notin {"Completed", "Failed", "Cancelled"}) =>
       /\ transfer_call.result.status = "Timeout"
       /\ transfer.stats_.timeout = 1
       /\ transfer.stats_.successful = 0
       /\ transfer.stats_.failed = 0

\* C40: for every number n >= 1 of consecutive failures, n >= 31 included,
\* the delay of the scheduled reconnect is between 1 and 60 seconds, and
\* the delay scheduled at a further consecutive failure is not smaller
\* than the one before.
C40_DelayInRangeAndMonotone ==
    /\ [](ws_io.reconnect_timer => (1 <= ws_obs.delay /\ ws_obs.delay <= 60))
    /\ [][(ws.reconnect_count_ >= 1 /\ ws'.reconnect_count_ = ws.reconnect_count_ + 1)
             => ws_obs'.delay >= ws_obs.delay]_vars

====
